---------------------------- MODULE Spec2Model ----------------------------
(***************************************************************************)
(* Model of the worker's stateful cores (src/index.js, revision v5):       *)
(*   - the streaming relay of handleChat (the background stream task),     *)
(*   - the Google credential lifecycle (getGoogleAccessToken, the OAuth    *)
(*     callback, disconnect) over the TOKENS key-value store, and          *)
(*   - the calendar and mail merge (handleCalendar, handleGmail), which    *)
(*     asks for each account's token and merges what the provider returns. *)
(*                                                                         *)
(* Text is a sequence of characters.  The upstream feed is a sequence of   *)
(* feed characters: NL (the line terminator) or an atom that stands for    *)
(* the body of one protocol line.  A read delivers an arbitrary chunk of   *)
(* that sequence, so a line can be cut between its body and its            *)
(* terminator.                                                             *)
(***************************************************************************)
EXTENDS Integers, Sequences, FiniteSets, TLC

(***************************************************************************)
(* Bounds                                                                  *)
(***************************************************************************)
MaxLines == 3      \* lines the upstream sends in one feed
MaxChunk == 3      \* feed characters delivered by one reader.read()
MaxOps == 3        \* requests handled: token calls, authorizations, removals
MaxCalls == 2      \* getGoogleAccessToken invocations among them
MaxTicks == 2      \* advances of the clock
MaxItems == 2      \* items the provider returns for one account

(***************************************************************************)
(* Values                                                                  *)
(***************************************************************************)
Null == "null"                 \* JS null
Undefined == "undefined"       \* JS undefined (a missing property)
NL == "NL"                     \* '\n'

\* Bodies of protocol lines the upstream can send.
TextAtoms == {"T_sp", "T_a", "T_b"}
JsonAtoms == {"J_open", "J_rest", "J_close", "J_full"}
Atoms == TextAtoms \cup JsonAtoms \cup
         {"ThinkStart", "ThinkDelta", "ToolPage", "ToolOther",
          "Stop", "DONE", "Bad"}

\* event.delta.text of a text_delta line
DeltaText(a) ==
  CASE a = "T_sp" -> <<" ">>
    [] a = "T_a"  -> <<"a">>
    [] a = "T_b"  -> <<"b", " ">>

\* event.delta.partial_json of an input_json_delta line, as JSON tokens:
\* P is the member "path":"/p", H is the member "html":"<h>".
PartialJson(a) ==
  CASE a = "J_open"  -> <<"{", "P">>
    [] a = "J_rest"  -> <<",", "H", "}">>
    [] a = "J_close" -> <<"}">>
    [] a = "J_full"  -> <<"{", "P", ",", "H", "}">>

\* event.content_block.name of a tool_use content_block_start line
ToolName(a) == IF a = "ToolPage" THEN "generate_page" ELSE "other_tool"

StatusThinking == "Thinking..."
StatusBuilding == "Building page..."
DefaultMessage == <<"H","e","r","e","'","s"," ","t","h","e"," ","u","p","d","a","t","e","d"," ","p","a","g","e",":">>
PathValue == "/p"
HtmlValue == "<h>"

(***************************************************************************)
(* State                                                                   *)
(***************************************************************************)
VARIABLES
  pc,                  \* position of the stream task of handleChat
  fetchCalls,          \* requests issued to the generation service
  upstreamStatus,      \* claudeRes.status once the request was answered
  feed,                \* every character the upstream delivered so far
  feedEnded,           \* reader.read() has reported done
  buffer,              \* carry-over of the last, incomplete line
  fullMessageText,     \* narrative accumulator
  toolCalls,           \* tool accumulators, in start order
  sentPageStatus,
  sentThinkingStatus,
  events,              \* events written to the output stream, in order
  closed,              \* the writer has been closed
  closeCalls,          \* number of writer.close() requests
  raised               \* the awaited operation that rejected, or "none"

relayVars == <<pc, fetchCalls, upstreamStatus, feed, feedEnded, buffer,
               fullMessageText, toolCalls, sentPageStatus,
               sentThinkingStatus, events, closed, closeCalls, raised>>

VARIABLES
  store,               \* the TOKENS key-value store: key -> record
  now,                 \* Date.now(), in ms since the start
  calls,               \* the getGoogleAccessToken invocations
  issued,              \* token grants the provider has made
  ops,                 \* requests admitted so far
  reply                \* the answer to the latest callback or disconnect

tokenVars == <<store, now, calls, issued, ops, reply>>

VARIABLES
  merge                \* the handleCalendar / handleGmail request in progress

mergeVars == <<merge>>

vars == <<relayVars, tokenVars, mergeVars>>

(***************************************************************************)
(* String helpers                                                          *)
(***************************************************************************)
IsSpace(c) == c = " "

RECURSIVE TrimStart(_)
TrimStart(s) ==
  IF s = <<>> THEN <<>>
  ELSE IF IsSpace(Head(s)) THEN TrimStart(Tail(s)) ELSE s

RECURSIVE TrimEnd(_)
TrimEnd(s) ==
  IF s = <<>> THEN <<>>
  ELSE IF IsSpace(s[Len(s)]) THEN TrimEnd(SubSeq(s, 1, Len(s) - 1)) ELSE s

\* String.prototype.trim
Trim(s) == TrimEnd(TrimStart(s))


(***************************************************************************)
(* Output stream writer                                                    *)
(***************************************************************************)
\* sendEvent: writer.write() of one event; a write on a closed writer is
\* rejected and nothing reaches the stream.  w = [events, closed, closeCalls]
sendEvent(w, e) ==
  IF w.closed THEN w ELSE [w EXCEPT !.events = Append(@, e)]

\* writer.close(): closes the stream; on a closed writer the request is
\* rejected and changes nothing.
writerClose(w) ==
  [w EXCEPT !.closed = TRUE, !.closeCalls = @ + 1]

StatusEvent(t) == [event |-> "status", text |-> t]
TextEvent(t) == [event |-> "text", text |-> t]
DoneEvent(r) == [event |-> "done", message |-> r.message, page |-> r.page]
ErrorEvent(m) == [event |-> "error", message |-> m]

(***************************************************************************)
(* Line framing: buffer.split('\n') and lines.pop()                        *)
(***************************************************************************)
RECURSIVE Split(_)
Split(s) ==
  IF \A i \in 1..Len(s) : s[i] # NL THEN <<s>>
  ELSE LET i == CHOOSE k \in 1..Len(s) :
                  s[k] = NL /\ \A j \in 1..(k - 1) : s[j] # NL
       IN <<SubSeq(s, 1, i - 1)>> \o Split(SubSeq(s, i + 1, Len(s)))

\* the complete lines of a buffer: everything but the last piece
CompleteLines(s) == LET p == Split(s) IN SubSeq(p, 1, Len(p) - 1)

\* Variant of CarryOver: nothing is kept between reads.
CarryOver_Dropped(s) == <<>>

\* lines.pop() || '' : the last, possibly incomplete piece
CarryOver(s) == LET p == Split(s) IN p[Len(p)]

(***************************************************************************)
(* Parsing one protocol line                                               *)
(***************************************************************************)
Skip == [type |-> "skip", sub |-> Undefined, name |-> Undefined,
         payload |-> <<>>]

\* JSON.parse(data) of a single well-formed data line
EventOf(a) ==
  CASE a \in TextAtoms ->
         [type |-> "content_block_delta", sub |-> "text_delta",
          name |-> Undefined, payload |-> DeltaText(a)]
    [] a \in JsonAtoms ->
         [type |-> "content_block_delta", sub |-> "input_json_delta",
          name |-> Undefined, payload |-> PartialJson(a)]
    [] a = "ThinkDelta" ->
         [type |-> "content_block_delta", sub |-> "thinking_delta",
          name |-> Undefined, payload |-> <<"t">>]
    [] a = "ThinkStart" ->
         [type |-> "content_block_start", sub |-> "thinking",
          name |-> Undefined, payload |-> <<>>]
    [] a \in {"ToolPage", "ToolOther"} ->
         [type |-> "content_block_start", sub |-> "tool_use",
          name |-> ToolName(a), payload |-> <<>>]
    [] OTHER ->
         [type |-> "content_block_stop", sub |-> Undefined,
          name |-> Undefined, payload |-> <<>>]

\* Variant of ParseLine: a body JSON.parse rejects is passed on as text.
ParseLine_ForwardsUnparsed(line) ==
  IF line = <<>> THEN Skip
  ELSE IF line = <<"DONE">> THEN Skip
  ELSE IF Len(line) # 1 \/ line[1] = "Bad"
       THEN [type |-> "content_block_delta", sub |-> "text_delta",
             name |-> Undefined, payload |-> <<"?">>]
  ELSE EventOf(line[1])

\* The guards of the line loop: not a data line, the [DONE] sentinel, or a
\* body JSON.parse rejects (a malformed body, or two bodies run together).
ParseLine(line) ==
  IF line = <<>> THEN Skip                       \* !line.startsWith('data: ')
  ELSE IF line = <<"DONE">> THEN Skip            \* data === '[DONE]'
  ELSE IF Len(line) # 1 \/ line[1] = "Bad" THEN Skip   \* JSON.parse throws
  ELSE EventOf(line[1])

(***************************************************************************)
(* Dispatch of one parsed fragment (the body of the inner try)             *)
(* r = [text, tools, page, think, w]                                       *)
(***************************************************************************)
\* Variant of OnThinkingStart: every thinking-start sends the status event.
OnThinkingStart_StatusEveryTime(r, ev) ==
  IF ev.type = "content_block_start" /\ ev.sub = "thinking"
  THEN [r EXCEPT !.w = sendEvent(@, StatusEvent(StatusThinking)),
                 !.think = TRUE]
  ELSE r

OnThinkingStart(r, ev) ==
  IF ev.type = "content_block_start" /\ ev.sub = "thinking" /\ ~r.think
  THEN [r EXCEPT !.w = sendEvent(@, StatusEvent(StatusThinking)),
                 !.think = TRUE]
  ELSE r

\* Variant of OnToolStart: every tool-start sends the status event.
OnToolStart_StatusEveryTime(r, ev) ==
  IF ev.type = "content_block_start" /\ ev.sub = "tool_use"
  THEN [r EXCEPT !.tools =
                   Append(@, [name |-> ev.name, input_json |-> <<>>]),
                 !.w = sendEvent(@, StatusEvent(StatusBuilding)),
                 !.page = TRUE]
  ELSE r

OnToolStart(r, ev) ==
  IF ev.type = "content_block_start" /\ ev.sub = "tool_use"
  THEN LET r1 == [r EXCEPT !.tools =
                     Append(@, [name |-> ev.name, input_json |-> <<>>])]
       IN IF ~r1.page
          THEN [r1 EXCEPT !.w = sendEvent(@, StatusEvent(StatusBuilding)),
                          !.page = TRUE]
          ELSE r1
  ELSE r

\* Variants of OnTextDelta: forwarding stops once a tool-start was seen;
\* the event carries the accumulated text instead of the delta.
OnTextDelta_SuppressedAfterToolStart(r, ev) ==
  IF r.page
  THEN [r EXCEPT !.text = @ \o ev.payload]
  ELSE [r EXCEPT !.text = @ \o ev.payload,
                 !.w = sendEvent(@, TextEvent(ev.payload))]

OnTextDelta_SendsAccumulated(r, ev) ==
  [r EXCEPT !.text = @ \o ev.payload,
            !.w = sendEvent(@, TextEvent(r.text \o ev.payload))]

\* Variant of OnTextDelta: a delta of blanks is accumulated but not sent.
OnTextDelta_SkipsBlank(r, ev) ==
  IF \A i \in 1..Len(ev.payload) : IsSpace(ev.payload[i])
  THEN [r EXCEPT !.text = @ \o ev.payload]
  ELSE [r EXCEPT !.text = @ \o ev.payload,
                 !.w = sendEvent(@, TextEvent(ev.payload))]

OnTextDelta(r, ev) ==
  [r EXCEPT !.text = @ \o ev.payload,
            !.w = sendEvent(@, TextEvent(ev.payload))]

\* Variant of OnInputJsonDelta: the delta is put in front of the buffer.
OnInputJsonDelta_Prepends(r, ev) ==
  IF r.tools # <<>>
  THEN [r EXCEPT !.tools[Len(r.tools)].input_json = ev.payload \o @]
  ELSE r

\* Variant of OnInputJsonDelta: the delta goes to the first accumulator.
OnInputJsonDelta_FirstTool(r, ev) ==
  IF r.tools # <<>>
  THEN [r EXCEPT !.tools[1].input_json = @ \o ev.payload]
  ELSE r

OnInputJsonDelta(r, ev) ==
  IF r.tools # <<>>
  THEN [r EXCEPT !.tools[Len(r.tools)].input_json = @ \o ev.payload]
  ELSE r

OnDelta(r, ev) ==
  IF ev.type = "content_block_delta"
  THEN IF ev.sub = "text_delta" THEN OnTextDelta(r, ev)
       ELSE IF ev.sub = "input_json_delta" THEN OnInputJsonDelta(r, ev)
       ELSE r
  ELSE r

Dispatch(r, ev) == OnDelta(OnToolStart(OnThinkingStart(r, ev), ev), ev)

RECURSIVE ProcessLines(_, _)
ProcessLines(r, lines) ==
  IF lines = <<>> THEN r
  ELSE ProcessLines(Dispatch(r, ParseLine(Head(lines))), Tail(lines))

(***************************************************************************)
(* Final result                                                            *)
(***************************************************************************)
\* JSON.parse of the tool input buffer, over the tokens { P , H }
JsonMembers(t) == SubSeq(t, 2, Len(t) - 1)

JsonParses(t) ==
  /\ Len(t) >= 2
  /\ t[1] = "{"
  /\ t[Len(t)] = "}"
  /\ LET m == JsonMembers(t)
     IN \/ m = <<>>
        \/ /\ Len(m) % 2 = 1
           /\ \A i \in 1..Len(m) :
                IF i % 2 = 1 THEN m[i] \in {"P", "H"} ELSE m[i] = ","

JsonField(t, tok, val) ==
  IF \E i \in 1..Len(JsonMembers(t)) : JsonMembers(t)[i] = tok
  THEN val ELSE Undefined

\* result.page: null, or { path: input.path, html: input.html }
NullPage == [isNull |-> TRUE, path |-> Undefined, html |-> Undefined]
Page(p, h) == [isNull |-> FALSE, path |-> p, html |-> h]

\* Variant of FindPageCall: the last accumulator of that name is taken.
FindPageCall_Last(tools) ==
  IF \E i \in 1..Len(tools) : tools[i].name = "generate_page"
  THEN CHOOSE k \in 1..Len(tools) :
         /\ tools[k].name = "generate_page"
         /\ \A j \in (k + 1)..Len(tools) : tools[j].name # "generate_page"
  ELSE 0

\* toolCalls.find(t => t.name === 'generate_page'): index of the first
\* accumulator of that name, 0 when there is none
FindPageCall(tools) ==
  IF \E i \in 1..Len(tools) : tools[i].name = "generate_page"
  THEN CHOOSE k \in 1..Len(tools) :
         /\ tools[k].name = "generate_page"
         /\ \A j \in 1..(k - 1) : tools[j].name # "generate_page"
  ELSE 0

\* Variant of PageOf: a buffer that does not parse gives an empty artifact.
PageOf_EmptyOnFailure(tools) ==
  LET i == FindPageCall(tools)
  IN IF i = 0 THEN NullPage
     ELSE IF JsonParses(tools[i].input_json)
          THEN Page(JsonField(tools[i].input_json, "P", PathValue),
                    JsonField(tools[i].input_json, "H", HtmlValue))
          ELSE Page(Undefined, Undefined)

PageOf(tools) ==
  LET i == FindPageCall(tools)
  IN IF i = 0 THEN NullPage
     ELSE IF JsonParses(tools[i].input_json)
          THEN Page(JsonField(tools[i].input_json, "P", PathValue),
                    JsonField(tools[i].input_json, "H", HtmlValue))
          ELSE NullPage

\* Variant of BuildResult: the narrative text is not trimmed.
BuildResult_Untrimmed(text, tools) ==
  LET page == PageOf(tools)
  IN [message |-> IF text = <<>> /\ ~page.isNull
                  THEN DefaultMessage ELSE text,
      page |-> page]

\* Variant of BuildResult: an empty message is replaced whatever the page.
BuildResult_DefaultWhenEmpty(text, tools) ==
  LET message == Trim(text)
  IN [message |-> IF message = <<>> THEN DefaultMessage ELSE message,
      page |-> PageOf(tools)]

BuildResult(text, tools) ==
  LET message == Trim(text)
      page == PageOf(tools)
  IN [message |-> IF message = <<>> /\ ~page.isNull
                  THEN DefaultMessage ELSE message,
      page |-> page]

(***************************************************************************)
(* The upstream                                                            *)
(***************************************************************************)
OkStatuses == {200}
ErrorStatuses == {400, 529}

NLCount(s) == Cardinality({i \in 1..Len(s) : s[i] = NL})
LineOpen(s) == s # <<>> /\ s[Len(s)] # NL

\* Chunks of at most n characters the upstream can deliver next.  A line is
\* at most one body followed by its terminator; the feed has at most
\* MaxLines lines, and it may stop before the terminator of its last line.
RECURSIVE ChunkSet(_, _, _, _)
ChunkSet(A, open, nlLeft, n) ==
  IF n = 0 THEN {<<>>}
  ELSE {<<>>}
       \cup (IF nlLeft > 0
             THEN {<<NL>> \o c : c \in ChunkSet(A, FALSE, nlLeft - 1, n - 1)}
             ELSE {})
       \cup (IF ~open /\ nlLeft > 0
             THEN UNION {{<<a>> \o c : c \in ChunkSet(A, TRUE, nlLeft, n - 1)}
                         : a \in A}
             ELSE {})

NextChunks(A, s) ==
  ChunkSet(A, LineOpen(s), MaxLines - NLCount(s), MaxChunk) \ {<<>>}

(***************************************************************************)
(* The stream task of handleChat                                           *)
(***************************************************************************)
Writer == [events |-> events, closed |-> closed, closeCalls |-> closeCalls]

SetWriter(w) ==
  /\ events' = w.events
  /\ closed' = w.closed
  /\ closeCalls' = w.closeCalls

InitRelay ==
  /\ pc = "start"
  /\ fetchCalls = 0
  /\ upstreamStatus = 0
  /\ feed = <<>>
  /\ feedEnded = FALSE
  /\ buffer = <<>>
  /\ fullMessageText = <<>>
  /\ toolCalls = <<>>
  /\ sentPageStatus = FALSE
  /\ sentThinkingStatus = FALSE
  /\ events = <<>>
  /\ closed = FALSE
  /\ closeCalls = 0
  /\ raised = "none"

(***************************************************************************)
(* Credential store                                                        *)
(***************************************************************************)
VALID_USERS == {"chris", "wife"}
\* keys a request can name: the fixed identities, and the marker the
\* callback falls back to when its state parameter is missing
Keys == VALID_USERS \cup {"unknown"}

SafetyMarginMs == 300000
MsPerSecond == 1000
TickMs == SafetyMarginMs \div 3
ExpiresInSeconds == {200, 500}     \* durations the provider reports
Emails == {"e@x"}                  \* the linked identity's label

\* the provider's grants, in the order it makes them
AccessTokens == <<"at1", "at2", "at3", "at4", "at5", "at6">>
RefreshTokens == <<"rt1", "rt2", "rt3", "rt4", "rt5", "rt6">>

\* new Date(t).toISOString() for an instant t of the first day of the epoch:
\* the text 1970-01-01Thh:mm:ss.mmmZ, kept as its fields
ToISOString(t) ==
  [date |-> "1970-01-01", h |-> t \div 3600000, m |-> (t \div 60000) % 60,
   s |-> (t \div 1000) % 60, ms |-> t % 1000]

\* a missing connected_at
NoDate == [date |-> Undefined, h |-> 0, m |-> 0, s |-> 0, ms |-> 0]

\* a key without a value, and the JSON record stored under a key; a
\* property JSON.stringify dropped is Undefined
NoRecord == [exists |-> FALSE, refresh_token |-> Undefined,
             access_token |-> Undefined, expires_at |-> 0,
             email |-> Undefined, connected_at |-> NoDate]

\* the answer of handleGoogleCallback or handleDisconnect: the state or user
\* parameter it was given and what it answered
Reply(handler, userKey, outcome) ==
  [handler |-> handler, user |-> userKey, outcome |-> outcome]

NoReply == Reply(Undefined, Undefined, Undefined)

IdleCall == [pc |-> "idle", user |-> Undefined, stored |-> NoRecord,
             pending |-> NoRecord, result |-> Undefined, net |-> 0,
             writes |-> 0]

Calls == 1..MaxCalls

InitTokens ==
  /\ store = [k \in Keys |-> NoRecord]
  /\ now = 0
  /\ calls = [c \in Calls |-> IdleCall]
  /\ issued = 0
  /\ ops = 0
  /\ reply = NoReply

(***************************************************************************)
(* Calendar and mail merge: values                                         *)
(***************************************************************************)
\* VALID_USERS in the order the handlers' loops visit it
UserOrder == <<"chris", "wife">>

\* what the provider's items carry: an event's start.dateTime, and a
\* message's internalDate (a decimal string; Undefined: it carries none)
Starts == {"2026-01-01T09:00:00Z", "2026-01-01T08:00:00-05:00"}
InternalDates == {Undefined, "999"}

\* new Date(start), in hours UTC of that day
NewDate(start) ==
  CASE start = "2026-01-01T09:00:00Z" -> 9
    [] start = "2026-01-01T08:00:00-05:00" -> 13

\* parseInt(internalDate)
ParseInt(d) == CASE d = "999" -> 999

\* msg.internalDate ? parseInt(msg.internalDate) : 0
Timestamp(d) == IF d = Undefined THEN 0 ELSE ParseInt(d)

SeqsUpTo(S, n) == UNION {[1..k -> S] : k \in 0..n}

\* the answer to one per-message request of handleGmail: not ok, or a
\* message whose internalDate is t
NotOkMsg == [ok |-> FALSE, t |-> Undefined]
OkMsg(t) == [ok |-> TRUE, t |-> t]
MsgAnswers == {NotOkMsg} \cup {OkMsg(t) : t \in InternalDates}

NoResponse == [status |-> 0, records |-> <<>>, connected_users |-> <<>>,
               any_connected |-> FALSE]

\* token: the token of the account being read; items: d.items (calendar)
\* or ids (mail); ownerEmail: stored?.email || userKey; acc: allEvents /
\* allMessages; cidx: position of the connected_users loop.  requested,
\* yielded, delivered and caught record what happened for each account:
\* whether a data request was issued, what getGoogleAccessToken returned,
\* which items the provider delivered in a read that completed, and
\* whether the read ended in the handler's catch.
IdleMerge == [pc |-> "idle", kind |-> Undefined, idx |-> 0,
              token |-> Undefined, items |-> <<>>, ownerEmail |-> Undefined,
              acc |-> <<>>, cidx |-> 0, connected |-> <<>>,
              response |-> NoResponse,
              requested |-> {}, caught |-> {},
              yielded |-> [u \in VALID_USERS |-> Undefined],
              delivered |-> [u \in VALID_USERS |-> {}]]

InitMerge == merge = IdleMerge

Init == InitRelay /\ InitTokens /\ InitMerge

\* the task starts and issues the request to the generation service
StartStream ==
  /\ pc = "start"
  /\ pc' = "fetch"
  /\ fetchCalls' = fetchCalls + 1
  /\ UNCHANGED <<upstreamStatus, feed, feedEnded, buffer, fullMessageText,
                 toolCalls, sentPageStatus, sentThinkingStatus, events,
                 closed, closeCalls>>
  /\ UNCHANGED raised
  /\ UNCHANGED <<tokenVars, mergeVars>>

\* Variant of CatchAndClose: the exception is swallowed without an event.
CatchAndClose_Silent(w, what) == writerClose(w)

\* catch (err) { sendEvent('error', ...) } finally { writer.close() }
CatchAndClose(w, what) ==
  writerClose(sendEvent(w, ErrorEvent(<<"exception", what>>)))

\* fetch resolves with claudeRes.ok
FetchOk ==
  /\ pc = "fetch"
  /\ \E s \in OkStatuses : upstreamStatus' = s
  /\ pc' = "read"
  /\ UNCHANGED <<fetchCalls, feed, feedEnded, buffer, fullMessageText,
                 toolCalls, sentPageStatus, sentThinkingStatus, events,
                 closed, closeCalls>>
  /\ UNCHANGED raised
  /\ UNCHANGED <<tokenVars, mergeVars>>

\* fetch resolves with !claudeRes.ok: the task awaits claudeRes.text()
FetchNotOk ==
  /\ pc = "fetch"
  /\ \E s \in ErrorStatuses : upstreamStatus' = s
  /\ pc' = "errBody"
  /\ UNCHANGED <<fetchCalls, feed, feedEnded, buffer, fullMessageText,
                 toolCalls, sentPageStatus, sentThinkingStatus, events,
                 closed, closeCalls>>
  /\ UNCHANGED raised
  /\ UNCHANGED <<tokenVars, mergeVars>>

\* fetch rejects (network failure)
FetchThrows ==
  /\ pc = "fetch"
  /\ pc' = "finished"
  /\ SetWriter(CatchAndClose(Writer, "fetch"))
  /\ UNCHANGED <<fetchCalls, upstreamStatus, feed, feedEnded, buffer,
                 fullMessageText, toolCalls, sentPageStatus,
                 sentThinkingStatus>>
  /\ raised' = "fetch"
  /\ UNCHANGED <<tokenVars, mergeVars>>

\* Variant of OnNotOk: the stream is closed without reporting the status.
OnNotOk_Unreported(w, status) == writerClose(writerClose(w))

\* if (!claudeRes.ok) { ...; sendEvent('error'); writer.close(); return }
\* followed by the finally block's writer.close()
OnNotOk(w, status) ==
  writerClose(writerClose(
    sendEvent(w, ErrorEvent(<<"Claude API error", status>>))))

ErrBodyRead ==
  /\ pc = "errBody"
  /\ pc' = "finished"
  /\ SetWriter(OnNotOk(Writer, upstreamStatus))
  /\ UNCHANGED <<fetchCalls, upstreamStatus, feed, feedEnded, buffer,
                 fullMessageText, toolCalls, sentPageStatus,
                 sentThinkingStatus>>
  /\ UNCHANGED raised
  /\ UNCHANGED <<tokenVars, mergeVars>>

\* claudeRes.text() rejects
ErrBodyThrows ==
  /\ pc = "errBody"
  /\ pc' = "finished"
  /\ SetWriter(CatchAndClose(Writer, "text"))
  /\ UNCHANGED <<fetchCalls, upstreamStatus, feed, feedEnded, buffer,
                 fullMessageText, toolCalls, sentPageStatus,
                 sentThinkingStatus>>
  /\ raised' = "text"
  /\ UNCHANGED <<tokenVars, mergeVars>>

\* one iteration of the read loop with done = false: append the chunk to
\* the carry-over, dispatch every complete line, keep the last piece
OnChunk(r, buf, chunk) ==
  ProcessLines(r, CompleteLines(buf \o chunk))

ReadChunks(S) ==
  /\ pc = "read"
  /\ \E chunk \in S :
       LET r == OnChunk([text |-> fullMessageText, tools |-> toolCalls,
                         page |-> sentPageStatus,
                         think |-> sentThinkingStatus, w |-> Writer],
                        buffer, chunk)
       IN /\ feed' = feed \o chunk
          /\ buffer' = CarryOver(buffer \o chunk)
          /\ fullMessageText' = r.text
          /\ toolCalls' = r.tools
          /\ sentPageStatus' = r.page
          /\ sentThinkingStatus' = r.think
          /\ SetWriter(r.w)
  /\ UNCHANGED <<pc, fetchCalls, upstreamStatus, feedEnded>>
  /\ UNCHANGED raised
  /\ UNCHANGED <<tokenVars, mergeVars>>

\* Variants of OnFeedEnd: an error event follows the done event; the writer
\* is left open.
OnFeedEnd_ErrorAfterDone(w, text, tools) ==
  writerClose(sendEvent(sendEvent(w, DoneEvent(BuildResult(text, tools))),
                        ErrorEvent(<<"exception", "close">>)))

OnFeedEnd_LeftOpen(w, text, tools) ==
  sendEvent(w, DoneEvent(BuildResult(text, tools)))

\* done = true: build the result, send done, then the finally block
OnFeedEnd(w, text, tools) ==
  writerClose(sendEvent(w, DoneEvent(BuildResult(text, tools))))

\* Variant of ReadDone: what is left in the buffer is dispatched as a line
\* before the result is built.
ReadDone_FlushesBuffer ==
  /\ pc = "read"
  /\ pc' = "finished"
  /\ feedEnded' = TRUE
  /\ LET r == ProcessLines([text |-> fullMessageText, tools |-> toolCalls,
                            page |-> sentPageStatus,
                            think |-> sentThinkingStatus, w |-> Writer],
                           <<buffer>>)
     IN /\ SetWriter(OnFeedEnd(r.w, r.text, r.tools))
        /\ fullMessageText' = r.text
        /\ toolCalls' = r.tools
        /\ sentPageStatus' = r.page
        /\ sentThinkingStatus' = r.think
  /\ UNCHANGED <<fetchCalls, upstreamStatus, feed, buffer>>
  /\ UNCHANGED raised
  /\ UNCHANGED <<tokenVars, mergeVars>>

ReadDone ==
  /\ pc = "read"
  /\ pc' = "finished"
  /\ feedEnded' = TRUE
  /\ SetWriter(OnFeedEnd(Writer, fullMessageText, toolCalls))
  /\ UNCHANGED <<fetchCalls, upstreamStatus, feed, buffer, fullMessageText,
                 toolCalls, sentPageStatus, sentThinkingStatus>>
  /\ UNCHANGED raised
  /\ UNCHANGED <<tokenVars, mergeVars>>

\* reader.read() rejects in the middle of the feed
ReadThrows ==
  /\ pc = "read"
  /\ pc' = "finished"
  /\ SetWriter(CatchAndClose(Writer, "read"))
  /\ UNCHANGED <<fetchCalls, upstreamStatus, feed, feedEnded, buffer,
                 fullMessageText, toolCalls, sentPageStatus,
                 sentThinkingStatus>>
  /\ raised' = "read"
  /\ UNCHANGED <<tokenVars, mergeVars>>

\* the upstream delivers whole line bodies
ReadChunkOf(A) == ReadChunks(NextChunks(A, feed))

ReadChunk == ReadChunkOf(Atoms)

\* a feed made of one line body of each dispatch branch only
CoreAtoms == {"T_a", "ThinkStart", "ToolPage", "J_open", "Bad"}
ReadCoreChunk == ReadChunkOf(CoreAtoms)

NextRelay ==
  \/ StartStream
  \/ FetchOk
  \/ FetchNotOk
  \/ FetchThrows
  \/ ErrBodyRead
  \/ ErrBodyThrows
  \/ ReadChunk
  \/ ReadDone
  \/ ReadThrows

SpecRelay == Init /\ [][NextRelay]_vars

\* The runtime keeps running the task: every awaited operation that can
\* resolve does resolve, and the feed, being finite, ends or fails.
NextRelayCore ==
  \/ StartStream
  \/ FetchOk
  \/ FetchNotOk
  \/ FetchThrows
  \/ ErrBodyRead
  \/ ErrBodyThrows
  \/ ReadCoreChunk
  \/ ReadDone
  \/ ReadThrows

SpecRelayFair == Init /\ [][NextRelayCore]_vars /\ WF_vars(NextRelayCore)

\* Reads that cut lines anywhere.  Here a feed symbol stands for a piece of a
\* line: a line of one piece is a well-formed data line, a line of several
\* pieces is one line to buffer.split and a body that JSON.parse rejects, so
\* that dispatching the pieces one by one and dispatching the line differ.
SplitAtoms == {"T_a", "ToolPage"}
MaxFeed == MaxLines + MaxChunk

SplitChunks(f) ==
  {c \in SeqsUpTo(SplitAtoms \cup {NL}, MaxChunk) :
     c # <<>> /\ Len(f) + Len(c) <= MaxFeed}

ReadSplitChunk == ReadChunks(SplitChunks(feed))

NextSplit ==
  \/ StartStream
  \/ FetchOk
  \/ ReadSplitChunk
  \/ ReadDone

SpecSplit == Init /\ [][NextSplit]_vars

(***************************************************************************)
(* getGoogleAccessToken                                                    *)
(***************************************************************************)
\* Variant of LacksRefreshToken: only a missing record is checked.
LacksRefreshToken_RecordOnly(stored) == ~stored.exists

\* !stored || !stored.refresh_token
LacksRefreshToken(stored) ==
  ~stored.exists \/ stored.refresh_token = Undefined

\* Variant of CacheValid: the token is still served at the margin itself.
CacheValid_AtMargin(stored, t) ==
  /\ stored.access_token # Undefined
  /\ stored.expires_at # 0
  /\ t <= stored.expires_at - SafetyMarginMs

\* stored.access_token && stored.expires_at
\*   && Date.now() < stored.expires_at - 300000
CacheValid(stored, t) ==
  /\ stored.access_token # Undefined
  /\ stored.expires_at # 0
  /\ t < stored.expires_at - SafetyMarginMs

\* the call starts and awaits env.TOKENS.get
GATStart(c, u) ==
  /\ calls[c].pc = "idle"
  /\ \A d \in 1..(c - 1) : calls[d].pc # "idle"
  /\ ops < MaxOps
  /\ ops' = ops + 1
  /\ calls' = [calls EXCEPT ![c] = [IdleCall EXCEPT !.pc = "get",
                                                    !.user = u]]
  /\ UNCHANGED <<store, now, issued, reply>>
  /\ UNCHANGED <<relayVars, mergeVars>>

\* Variant of AfterGet: a record with a refresh token is always refreshed.
AfterGet_AlwaysRefreshes(k, stored, t) ==
  IF LacksRefreshToken(stored)
  THEN [k EXCEPT !.pc = "returned", !.stored = stored, !.result = Null]
  ELSE [k EXCEPT !.pc = "refresh", !.stored = stored, !.net = @ + 1]

\* the get resolves: return absent, return the cached token, or issue the
\* refresh request to the provider
AfterGet(k, stored, t) ==
  IF LacksRefreshToken(stored)
  THEN [k EXCEPT !.pc = "returned", !.stored = stored, !.result = Null]
  ELSE IF CacheValid(stored, t)
       THEN [k EXCEPT !.pc = "returned", !.stored = stored,
                      !.result = stored.access_token]
       ELSE [k EXCEPT !.pc = "refresh", !.stored = stored, !.net = @ + 1]

GATGet(c) ==
  /\ calls[c].pc = "get"
  /\ calls' = [calls EXCEPT ![c] = AfterGet(@, store[@.user], now)]
  /\ UNCHANGED <<store, now, issued, ops, reply>>
  /\ UNCHANGED <<relayVars, mergeVars>>

\* the provider answers the refresh with a new access token: the call builds
\* { ...stored, access_token, expires_at } and awaits env.TOKENS.put
\* Variant of RefreshedRecord: only the credential fields are written.
RefreshedRecord_DropsMetadata(stored, token, expiresIn, t) ==
  [exists |-> TRUE, refresh_token |-> stored.refresh_token,
   access_token |-> token, expires_at |-> t + expiresIn * MsPerSecond,
   email |-> Undefined, connected_at |-> NoDate]

RefreshedRecord(stored, token, expiresIn, t) ==
  [stored EXCEPT !.access_token = token,
                 !.expires_at = t + expiresIn * MsPerSecond]

GATRefreshOk(c) ==
  /\ calls[c].pc = "refresh"
  /\ issued < Len(AccessTokens)
  /\ \E e \in ExpiresInSeconds :
       calls' = [calls EXCEPT ![c].pc = "put",
                   ![c].result = AccessTokens[issued + 1],
                   ![c].pending = RefreshedRecord(calls[c].stored,
                                     AccessTokens[issued + 1], e, now)]
  /\ issued' = issued + 1
  /\ UNCHANGED <<store, now, ops, reply>>
  /\ UNCHANGED <<relayVars, mergeVars>>

\* Variant of GATRefreshError: on a provider error the call writes back the
\* record it read with the access token removed.
GATRefreshError_WritesPartial(c) ==
  /\ calls[c].pc = "refresh"
  /\ calls' = [calls EXCEPT ![c].pc = "put",
                 ![c].pending = [calls[c].stored EXCEPT
                                   !.access_token = Undefined]]
  /\ UNCHANGED <<store, now, issued, ops, reply>>
  /\ UNCHANGED <<relayVars, mergeVars>>

\* the provider answers with data.error: the call awaits env.TOKENS.delete
GATRefreshError(c) ==
  /\ calls[c].pc = "refresh"
  /\ calls' = [calls EXCEPT ![c].pc = "delete"]
  /\ UNCHANGED <<store, now, issued, ops, reply>>
  /\ UNCHANGED <<relayVars, mergeVars>>

\* Variant of GATRefreshThrows: the request is issued again.
GATRefreshThrows_Retries(c) ==
  /\ calls[c].pc = "refresh"
  /\ calls' = IF calls[c].net < 2
                THEN [calls EXCEPT ![c].net = @ + 1]
                ELSE [calls EXCEPT ![c].pc = "threw"]
  /\ UNCHANGED <<store, now, issued, ops, reply>>
  /\ UNCHANGED <<relayVars, mergeVars>>

\* fetch or res.json() rejects: the exception leaves getGoogleAccessToken
GATRefreshThrows(c) ==
  /\ calls[c].pc = "refresh"
  /\ calls' = [calls EXCEPT ![c].pc = "threw"]
  /\ UNCHANGED <<store, now, issued, ops, reply>>
  /\ UNCHANGED <<relayVars, mergeVars>>

\* Variant of GATPut: the put updates the access token of the record that is
\* in the store and keeps that record's other fields.
GATPut_MergesFields(c) ==
  /\ calls[c].pc = "put"
  /\ store' = [store EXCEPT ![calls[c].user] =
                 IF @.exists
                   THEN [@ EXCEPT !.access_token = calls[c].pending.access_token]
                   ELSE calls[c].pending]
  /\ calls' = [calls EXCEPT ![c].pc = "returned", ![c].writes = @ + 1]
  /\ UNCHANGED <<now, issued, ops, reply>>
  /\ UNCHANGED <<relayVars, mergeVars>>

\* await env.TOKENS.put resolves; return data.access_token
GATPut(c) ==
  /\ calls[c].pc = "put"
  /\ store' = [store EXCEPT ![calls[c].user] = calls[c].pending]
  /\ calls' = [calls EXCEPT ![c].pc = "returned", ![c].writes = @ + 1]
  /\ UNCHANGED <<now, issued, ops, reply>>
  /\ UNCHANGED <<relayVars, mergeVars>>

\* Variant of GATDelete: the call returns absent and leaves the record.
GATDelete_KeepsRecord(c) ==
  /\ calls[c].pc = "delete"
  /\ store' = store
  /\ calls' = [calls EXCEPT ![c].pc = "returned", ![c].result = Null,
                            ![c].writes = @ + 1]
  /\ UNCHANGED <<now, issued, ops, reply>>
  /\ UNCHANGED <<relayVars, mergeVars>>

\* await env.TOKENS.delete resolves; return null
GATDelete(c) ==
  /\ calls[c].pc = "delete"
  /\ store' = [store EXCEPT ![calls[c].user] = NoRecord]
  /\ calls' = [calls EXCEPT ![c].pc = "returned", ![c].result = Null,
                            ![c].writes = @ + 1]
  /\ UNCHANGED <<now, issued, ops, reply>>
  /\ UNCHANGED <<relayVars, mergeVars>>

(***************************************************************************)
(* OAuth callback, disconnect, the clock                                   *)
(***************************************************************************)
\* Variant of CallbackRecord: the expiry is the reported duration alone.
CallbackRecord_ExpiryFromEpoch(refresh, token, expiresIn, email, t) ==
  [exists |-> TRUE, refresh_token |-> refresh, access_token |-> token,
   expires_at |-> expiresIn * MsPerSecond, email |-> email,
   connected_at |-> ToISOString(t)]

\* the record handleGoogleCallback writes; refresh is Undefined when the
\* provider's answer carries no refresh_token
CallbackRecord(refresh, token, expiresIn, email, t) ==
  [exists |-> TRUE, refresh_token |-> refresh, access_token |-> token,
   expires_at |-> t + expiresIn * MsPerSecond, email |-> email,
   connected_at |-> ToISOString(t)]

\* callback with an error parameter, or a code exchange answered with an
\* error: the handler returns the failure page
CallbackFailed ==
  /\ ops < MaxOps
  /\ ops' = ops + 1
  /\ reply' = Reply("callback", Undefined, "failed")
  /\ UNCHANGED <<store, now, calls, issued>>
  /\ UNCHANGED <<relayVars, mergeVars>>

\* callback whose code exchange succeeds; userKey is the state parameter
CallbackOk(userKey) ==
  /\ ops < MaxOps
  /\ issued < Len(AccessTokens)
  /\ \E e \in ExpiresInSeconds, m \in Emails,
        r \in {Undefined, RefreshTokens[issued + 1]} :
       store' = [store EXCEPT ![userKey] =
                   CallbackRecord(r, AccessTokens[issued + 1], e, m, now)]
  /\ issued' = issued + 1
  /\ ops' = ops + 1
  /\ reply' = Reply("callback", userKey, "connected")
  /\ UNCHANGED <<now, calls>>
  /\ UNCHANGED <<relayVars, mergeVars>>

\* Variant of AfterDisconnect: the record is deleted whatever the parameter.
AfterDisconnect_AnyKey(st, userKey) ==
  [st EXCEPT ![userKey] = NoRecord]

\* handleDisconnect: rejected unless the user parameter is a valid user
AfterDisconnect(st, userKey) ==
  IF userKey \in VALID_USERS THEN [st EXCEPT ![userKey] = NoRecord] ELSE st

\* 400 { error: 'Invalid user' }, or 200 { success: true }
DisconnectReply(userKey) ==
  Reply("disconnect", userKey,
        IF userKey \in VALID_USERS THEN "success" ELSE "invalid")

\* Variant of Disconnect: a valid request clears every record.
Disconnect_ClearsAll(userKey) ==
  /\ ops < MaxOps
  /\ store' = IF userKey \in VALID_USERS
                THEN [k \in Keys |-> NoRecord] ELSE store
  /\ reply' = DisconnectReply(userKey)
  /\ ops' = ops + 1
  /\ UNCHANGED <<now, calls, issued>>
  /\ UNCHANGED <<relayVars, mergeVars>>

Disconnect(userKey) ==
  /\ ops < MaxOps
  /\ store' = AfterDisconnect(store, userKey)
  /\ reply' = DisconnectReply(userKey)
  /\ ops' = ops + 1
  /\ UNCHANGED <<now, calls, issued>>
  /\ UNCHANGED <<relayVars, mergeVars>>

Tick ==
  /\ now < MaxTicks * TickMs
  /\ now' = now + TickMs
  /\ UNCHANGED <<store, calls, issued, ops, reply>>
  /\ UNCHANGED <<relayVars, mergeVars>>

NextTokens ==
  \/ \E c \in Calls, u \in VALID_USERS : GATStart(c, u)
  \/ \E c \in Calls : GATGet(c)
  \/ \E c \in Calls : GATRefreshOk(c)
  \/ \E c \in Calls : GATRefreshError(c)
  \/ \E c \in Calls : GATRefreshThrows(c)
  \/ \E c \in Calls : GATPut(c)
  \/ \E c \in Calls : GATDelete(c)
  \/ CallbackFailed
  \/ \E k \in Keys : CallbackOk(k)
  \/ \E k \in Keys : Disconnect(k)
  \/ Tick

SpecTokens == Init /\ [][NextTokens]_vars

\* A relay invocation next to getGoogleAccessToken calls: the requests each
\* of them issues, whatever is read from the feed.
NextRequests ==
  \/ StartStream
  \/ FetchOk
  \/ FetchNotOk
  \/ FetchThrows
  \/ ErrBodyRead
  \/ ErrBodyThrows
  \/ ReadDone
  \/ ReadThrows
  \/ \E c \in Calls, u \in VALID_USERS : GATStart(c, u)
  \/ \E c \in Calls : GATGet(c)
  \/ \E c \in Calls : GATRefreshOk(c)
  \/ \E c \in Calls : GATRefreshError(c)
  \/ \E c \in Calls : GATRefreshThrows(c)
  \/ \E c \in Calls : GATPut(c)
  \/ \E c \in Calls : GATDelete(c)
  \/ \E k \in VALID_USERS : CallbackOk(k)

SpecRequests == Init /\ [][NextRequests]_vars

(***************************************************************************)
(* handleCalendar and handleGmail                                          *)
(***************************************************************************)
CalendarRecord(u, i, start, email) ==
  [id |-> i, start |-> start, owner |-> u, ownerEmail |-> email]

MailRecord(u, i, ts, email) ==
  [id |-> i, timestamp |-> ts, owner |-> u, ownerEmail |-> email]

\* what a per-message request that was not ok contributes to msgs
NullMsg == [id |-> 0, timestamp |-> 0, owner |-> Null, ownerEmail |-> Null]

\* the comparators handed to sort: new Date(a.start) - new Date(b.start),
\* and b.timestamp - a.timestamp
Compare(kind, a, b) ==
  IF kind = "calendar" THEN NewDate(a.start) - NewDate(b.start)
  ELSE b.timestamp - a.timestamp

\* Array.prototype.sort, which is stable
RECURSIVE InsertSorted(_, _, _)
InsertSorted(kind, x, s) ==
  IF s = <<>> THEN <<x>>
  ELSE IF Compare(kind, x, Head(s)) < 0 THEN <<x>> \o s
       ELSE <<Head(s)>> \o InsertSorted(kind, x, Tail(s))

RECURSIVE Sort(_, _)
Sort(kind, s) ==
  IF s = <<>> THEN <<>>
  ELSE InsertSorted(kind, s[Len(s)], Sort(kind, SubSeq(s, 1, Len(s) - 1)))

\* stored?.email || userKey
OwnerEmail(st, u) ==
  IF st[u].exists /\ st[u].email # Undefined THEN st[u].email ELSE u

\* getGoogleAccessToken(userKey, env) is entered: it awaits env.TOKENS.get
StartCall(cs, i) ==
  [cs EXCEPT ![i] = [IdleCall EXCEPT !.pc = "get", !.user = UserOrder[i]]]

\* Variant of AfterUser: the accumulator is returned in arrival order.
AfterUser_Unsorted(m) ==
  IF m.idx < Len(UserOrder)
  THEN [m EXCEPT !.pc = "token", !.idx = @ + 1, !.token = Undefined,
                 !.items = <<>>, !.ownerEmail = Undefined]
  ELSE [m EXCEPT !.pc = "connected", !.token = Undefined, !.items = <<>>,
                 !.ownerEmail = Undefined, !.cidx = 1]

\* the loop body is left for account idx: the next account's token is
\* asked for, or, after the last account, the accumulator is sorted and the
\* first lookup of the connected_users loop is awaited
AfterUser(m) ==
  IF m.idx < Len(UserOrder)
  THEN [m EXCEPT !.pc = "token", !.idx = @ + 1, !.token = Undefined,
                 !.items = <<>>, !.ownerEmail = Undefined]
  ELSE [m EXCEPT !.pc = "connected", !.token = Undefined, !.items = <<>>,
                 !.ownerEmail = Undefined, !.acc = Sort(m.kind, m.acc),
                 !.cidx = 1]

\* the calls after a handler step from m to m2: entering the loop body for
\* another account enters getGoogleAccessToken
CallsFor(m, m2, cs) ==
  IF m2.pc = "token" /\ m2.idx # m.idx THEN StartCall(cs, m2.idx) ELSE cs

\* the handler is entered and asks for the first account's token
MergeStart(kind) ==
  /\ merge.pc = "idle"
  /\ ops < MaxOps
  /\ ops' = ops + 1
  /\ merge' = [IdleMerge EXCEPT !.pc = "token", !.kind = kind, !.idx = 1]
  /\ calls' = StartCall(calls, 1)
  /\ UNCHANGED <<store, now, issued, reply>>
  /\ UNCHANGED relayVars

\* Variant of OnToken: the data request is issued whatever the token is.
OnToken_RequestsAnyway(m, tok) ==
  [m EXCEPT !.pc = "fetch", !.token = tok,
            !.yielded[UserOrder[m.idx]] = tok,
            !.requested = @ \cup {UserOrder[m.idx]}]

\* const token = await getGoogleAccessToken(...); if (!token) continue;
\* otherwise the data request is issued
OnToken(m, tok) ==
  IF tok = Null
  THEN AfterUser([m EXCEPT !.yielded[UserOrder[m.idx]] = tok])
  ELSE [m EXCEPT !.pc = "fetch", !.token = tok,
                 !.yielded[UserOrder[m.idx]] = tok,
                 !.requested = @ \cup {UserOrder[m.idx]}]

MergeTokenReturned ==
  /\ merge.pc = "token"
  /\ calls[merge.idx].pc = "returned"
  /\ merge' = OnToken(merge, calls[merge.idx].result)
  /\ calls' = CallsFor(merge, merge', calls)
  /\ UNCHANGED <<store, now, issued, ops, reply>>
  /\ UNCHANGED relayVars

\* getGoogleAccessToken raised: the await is outside the handler's try, so
\* the exception reaches the catch of fetch(), which answers 500
MergeTokenThrew ==
  /\ merge.pc = "token"
  /\ calls[merge.idx].pc = "threw"
  /\ merge' = [merge EXCEPT !.pc = "failed",
                            !.response = [NoResponse EXCEPT !.status = 500]]
  /\ UNCHANGED tokenVars
  /\ UNCHANGED relayVars

\* a read that ended in catch {}: the account and the awaited operation
Caught(m) == [user |-> UserOrder[m.idx], at |-> m.pc]

\* the data request (events, or the message list) is answered ok
MergeFetchOk ==
  /\ merge.pc = "fetch"
  /\ merge' = [merge EXCEPT !.pc = "json"]
  /\ UNCHANGED tokenVars
  /\ UNCHANGED relayVars

\* if (!r.ok) continue
MergeFetchNotOk ==
  /\ merge.pc = "fetch"
  /\ merge' = AfterUser(merge)
  /\ calls' = CallsFor(merge, merge', calls)
  /\ UNCHANGED <<store, now, issued, ops, reply>>
  /\ UNCHANGED relayVars

\* the data request, or reading its body, rejects: catch {}
MergeFetchThrows ==
  /\ merge.pc \in {"fetch", "json"}
  /\ merge' = AfterUser([merge EXCEPT !.caught = @ \cup {Caught(merge)}])
  /\ calls' = CallsFor(merge, merge', calls)
  /\ UNCHANGED <<store, now, issued, ops, reply>>
  /\ UNCHANGED relayVars

\* the items of an answer, as the provider delivered them
ItemsDelivered(items) == {[id |-> i, t |-> items[i]] : i \in 1..Len(items)}

\* r.json() of the events answer resolves with d.items; listRes.json() of
\* the list answer resolves with the ids of n messages.  The stored record
\* is then looked up for the owner's label.
MergeJson ==
  /\ merge.pc = "json"
  /\ \/ /\ merge.kind = "calendar"
        /\ \E items \in SeqsUpTo(Starts, MaxItems) :
             merge' = [merge EXCEPT !.pc = "get", !.items = items,
                         !.delivered[UserOrder[merge.idx]] =
                            ItemsDelivered(items)]
     \/ /\ merge.kind = "mail"
        /\ \E n \in 0..MaxItems :
             merge' = [merge EXCEPT !.pc = "get",
                                    !.items = [i \in 1..n |-> i]]
  /\ UNCHANGED tokenVars
  /\ UNCHANGED relayVars

\* Variant of PushEvents: the account's events replace the accumulator.
PushEvents_Overwrites(m, email) ==
  [m EXCEPT !.acc = [i \in 1..Len(m.items) |->
                       CalendarRecord(UserOrder[m.idx], i, m.items[i],
                                      email)]]

\* (d.items || []).forEach(e => allEvents.push({...}))
PushEvents(m, email) ==
  [m EXCEPT !.acc = @ \o [i \in 1..Len(m.items) |->
                            CalendarRecord(UserOrder[m.idx], i, m.items[i],
                                           email)]]

\* the lookup of the stored record resolves: handleCalendar pushes the
\* events; handleGmail issues one request per message id
MergeStoredGet ==
  /\ merge.pc = "get"
  /\ LET email == OwnerEmail(store, UserOrder[merge.idx])
     IN  merge' = IF merge.kind = "calendar"
                  THEN AfterUser(PushEvents(merge, email))
                  ELSE [merge EXCEPT !.pc = "msgs", !.ownerEmail = email]
  /\ calls' = CallsFor(merge, merge', calls)
  /\ UNCHANGED <<store, now, issued, ops, reply>>
  /\ UNCHANGED relayVars

\* msgs.filter(Boolean)
RECURSIVE FilterBoolean(_)
FilterBoolean(s) ==
  IF s = <<>> THEN <<>>
  ELSE IF Head(s) = NullMsg THEN FilterBoolean(Tail(s))
       ELSE <<Head(s)>> \o FilterBoolean(Tail(s))

\* the value of Promise.all(ids.map(...)) for the answers ans
MsgsOf(m, ans) ==
  [i \in 1..Len(m.items) |->
     IF ans[i].ok
     THEN MailRecord(UserOrder[m.idx], m.items[i], Timestamp(ans[i].t),
                     m.ownerEmail)
     ELSE NullMsg]

\* allMessages.push(...msgs.filter(Boolean))
PushMessages(m, ans) ==
  [m EXCEPT !.acc = @ \o FilterBoolean(MsgsOf(m, ans))]

\* every per-message request is answered, ok or not
MergeMsgs ==
  /\ merge.pc = "msgs"
  /\ \E ans \in [1..Len(merge.items) -> MsgAnswers] :
       merge' = AfterUser(
                  [PushMessages(merge, ans) EXCEPT
                     !.delivered[UserOrder[merge.idx]] =
                        {[id |-> i, t |-> ans[i].t] :
                           i \in {j \in 1..Len(ans) : ans[j].ok}}])
  /\ calls' = CallsFor(merge, merge', calls)
  /\ UNCHANGED <<store, now, issued, ops, reply>>
  /\ UNCHANGED relayVars

\* one of the per-message requests rejects: Promise.all rejects, catch {}
MergeMsgsThrow ==
  /\ merge.pc = "msgs"
  /\ merge.items # <<>>
  /\ merge' = AfterUser([merge EXCEPT !.caught = @ \cup {Caught(merge)}])
  /\ calls' = CallsFor(merge, merge', calls)
  /\ UNCHANGED <<store, now, issued, ops, reply>>
  /\ UNCHANGED relayVars

MergeResponse(m) ==
  [status |-> 200, records |-> m.acc, connected_users |-> m.connected,
   any_connected |-> Len(m.connected) > 0]

\* Variant of OnConnectedGet: an account is listed when it yielded a token.
OnConnectedGet_ByToken(m, st) ==
  LET u == UserOrder[m.cidx]
      m2 == IF m.yielded[u] \notin {Null, Undefined}
            THEN [m EXCEPT !.connected = Append(@, u)] ELSE m
  IN  IF m.cidx < Len(UserOrder)
      THEN [m2 EXCEPT !.cidx = @ + 1]
      ELSE [m2 EXCEPT !.pc = "returned", !.response = MergeResponse(m2)]

\* if (await env.TOKENS.get(`google:${u}`)) connected.push(u); after the
\* last account the handler returns the merged result
OnConnectedGet(m, st) ==
  LET u == UserOrder[m.cidx]
      m2 == IF st[u].exists
            THEN [m EXCEPT !.connected = Append(@, u)] ELSE m
  IN  IF m.cidx < Len(UserOrder)
      THEN [m2 EXCEPT !.cidx = @ + 1]
      ELSE [m2 EXCEPT !.pc = "returned", !.response = MergeResponse(m2)]

MergeConnectedGet ==
  /\ merge.pc = "connected"
  /\ merge' = OnConnectedGet(merge, store)
  /\ UNCHANGED tokenVars
  /\ UNCHANGED relayVars

NextMerge ==
  \/ \E kind \in {"calendar", "mail"} : MergeStart(kind)
  \/ MergeTokenReturned
  \/ MergeTokenThrew
  \/ MergeFetchOk
  \/ MergeFetchNotOk
  \/ MergeFetchThrows
  \/ MergeJson
  \/ MergeStoredGet
  \/ MergeMsgs
  \/ MergeMsgsThrow
  \/ MergeConnectedGet
  \/ \E c \in Calls : GATGet(c)
  \/ \E c \in Calls : GATRefreshOk(c)
  \/ \E c \in Calls : GATRefreshError(c)
  \/ \E c \in Calls : GATRefreshThrows(c)
  \/ \E c \in Calls : GATPut(c)
  \/ \E c \in Calls : GATDelete(c)
  \/ \E k \in VALID_USERS : CallbackOk(k)
  \/ \E k \in VALID_USERS : Disconnect(k)

SpecMerge == Init /\ [][NextMerge]_vars

(***************************************************************************)
(* Reference reading of the feed, taken from the delivered characters      *)
(* alone: a fragment is the body of a line whose terminator has arrived.   *)
(***************************************************************************)
RECURSIVE FeedFragments(_)
FeedFragments(f) ==
  IF Len(f) < 2 THEN <<>>
  ELSE IF f[1] # NL /\ f[2] = NL
       THEN <<f[1]>> \o FeedFragments(SubSeq(f, 3, Len(f)))
       ELSE FeedFragments(Tail(f))

IsToolStart(a) == a \in {"ToolPage", "ToolOther"}

\* the deltas of the text_delta fragments, in arrival order
ArrivedDeltas(frags) ==
  LET t == SelectSeq(frags, LAMBDA a : a \in TextAtoms)
  IN [i \in 1..Len(t) |-> DeltaText(t[i])]

RECURSIVE Concat(_)
Concat(ss) == IF ss = <<>> THEN <<>> ELSE Head(ss) \o Concat(Tail(ss))

ArrivedText(f) == Concat(ArrivedDeltas(FeedFragments(f)))

NoToolStart(f) ==
  \A i \in 1..Len(FeedFragments(f)) : ~IsToolStart(FeedFragments(f)[i])

\* position of the first generate_page tool-start among the fragments, or 0
FirstPageStart(frags) ==
  IF \E i \in 1..Len(frags) : frags[i] = "ToolPage"
  THEN CHOOSE i \in 1..Len(frags) :
         frags[i] = "ToolPage" /\ \A j \in 1..(i - 1) : frags[j] # "ToolPage"
  ELSE 0

\* the input_json_delta fragments of the tool call started at position i:
\* those that arrive before the next tool-start
RECURSIVE JsonUntilNextStart(_)
JsonUntilNextStart(frags) ==
  IF frags = <<>> \/ IsToolStart(Head(frags)) THEN <<>>
  ELSE (IF Head(frags) \in JsonAtoms THEN PartialJson(Head(frags)) ELSE <<>>)
       \o JsonUntilNextStart(Tail(frags))

HasPageCall(f) == FirstPageStart(FeedFragments(f)) # 0

PageInputBuffer(f) ==
  LET frags == FeedFragments(f)
      i == FirstPageStart(frags)
  IN JsonUntilNextStart(SubSeq(frags, i + 1, Len(frags)))

\* the JSON texts {"path":"/p","html":"<h>"}, {"path":"/p"} and {}
CompletePageJson == <<"{", "P", ",", "H", "}">>
WellFormedJsonTexts == {CompletePageJson, <<"{", "P", "}">>, <<"{", "}">>}

IsTerminal(e) == e.event \in {"done", "error"}
TerminalCount(evs) == Cardinality({i \in 1..Len(evs) : IsTerminal(evs[i])})
EventCount(evs, kind) ==
  Cardinality({i \in 1..Len(evs) : evs[i].event = kind})
LastEvent == events[Len(events)]

TextPayloads(evs) ==
  LET t == SelectSeq(evs, LAMBDA e : e.event = "text")
  IN [i \in 1..Len(t) |-> t[i].text]

(***************************************************************************)
(* Claims about the streaming relay                                        *)
(***************************************************************************)

\* C1: when the invocation has finished exactly one terminal event (done or
\* error) has been written, and in no state does any event follow a terminal
\* event on the output stream.
C1_ExactlyOneTerminal ==
  /\ pc = "finished" => TerminalCount(events) = 1
  /\ \A i \in 1..Len(events) : IsTerminal(events[i]) => i = Len(events)

C1_Witness ==
  /\ pc = "finished"
  /\ upstreamStatus \in ErrorStatuses
  /\ closeCalls = 2
  /\ TerminalCount(events) = 1

\* C2: under fairness every invocation eventually has sent a terminal event
\* and closed the output stream, and the stream is never closed while no
\* terminal event has been sent.
C2_TerminalThenClosed ==
  /\ <>(closed /\ TerminalCount(events) >= 1)
  /\ [](closed => TerminalCount(events) >= 1)

C2_Witness ==
  /\ closed
  /\ feedEnded
  /\ FeedFragments(feed) = <<"T_a", "ToolPage", "J_open">>
  /\ LastEvent.event = "done"

\* C3: a feed that completes without any tool-start fragment ends in a done
\* event whose artifact is null and whose message is the trimmed
\* concatenation, in arrival order, of the text_delta texts.
C3_NoToolMessage ==
  (feedEnded /\ NoToolStart(feed)) =>
     /\ events # <<>>
     /\ LastEvent.event = "done"
     /\ LastEvent.page = NullPage
     /\ LastEvent.message = Trim(ArrivedText(feed))

\* deltas "b " then "a", with leading white space before them
C3_Witness ==
  /\ feedEnded
  /\ NoToolStart(feed)
  /\ FeedFragments(feed) = <<"T_sp", "T_b", "T_a">>
  /\ LastEvent.message = <<"b", " ", "a">>

\* C4: when the feed completes and the input buffer of the generate_page
\* call, the concatenation of its input_json_delta fragments in arrival
\* order, is the JSON object with path and html, the done event's artifact is
\* exactly that pair.
C4_ArtifactFromBuffer ==
  (feedEnded /\ HasPageCall(feed)
     /\ PageInputBuffer(feed) = CompletePageJson) =>
     /\ events # <<>>
     /\ LastEvent.event = "done"
     /\ LastEvent.page = Page(PathValue, HtmlValue)

C4_Witness ==
  /\ feedEnded
  /\ FeedFragments(feed) = <<"ToolPage", "J_open", "J_rest">>
  /\ LastEvent.page = Page(PathValue, HtmlValue)

\* C5: when the feed completes and the generate_page input buffer is not
\* well-formed JSON, the relay still ends with a done event, not an error
\* event; its artifact is null and its message the trimmed narrative text.
C5_MalformedArtifactOmitted ==
  (feedEnded /\ HasPageCall(feed)
     /\ PageInputBuffer(feed) \notin WellFormedJsonTexts) =>
     /\ events # <<>>
     /\ LastEvent.event = "done"
     /\ EventCount(events, "error") = 0
     /\ LastEvent.page = NullPage
     /\ LastEvent.message = Trim(ArrivedText(feed))

C5_Witness ==
  /\ feedEnded
  /\ FeedFragments(feed) = <<"T_a", "ToolPage", "J_open">>
  /\ LastEvent.event = "done"
  /\ LastEvent.page = NullPage
  /\ LastEvent.message = <<"a">>

\* position of the first tool-start among the fragments, or 0
FirstToolStart(frags) ==
  IF \E i \in 1..Len(frags) : IsToolStart(frags[i])
  THEN CHOOSE i \in 1..Len(frags) :
         IsToolStart(frags[i]) /\ \A j \in 1..(i - 1) : ~IsToolStart(frags[j])
  ELSE 0

IsBuildingStatus(e) == e.event = "status" /\ e.text = StatusBuilding

\* position of the first 'building' status event on the output, or 0
BuildingIndex(evs) ==
  IF \E i \in 1..Len(evs) : IsBuildingStatus(evs[i])
  THEN CHOOSE i \in 1..Len(evs) :
         IsBuildingStatus(evs[i])
         /\ \A j \in 1..(i - 1) : ~IsBuildingStatus(evs[j])
  ELSE 0

C7_TextStreamedLiveInOrder ==
  TextPayloads(events) = ArrivedDeltas(FeedFragments(feed))

C7_Witness ==
  /\ pc = "read"
  /\ buffer = <<"T_a">>
  /\ TextPayloads(events) = <<<<"b", " ">>, <<" ">>>>

\* C8: after a non-success status nothing is read from the feed and no
\* status, text or done event is emitted; the invocation finishes with the
\* stream closed and a single error event, which names the status.
C8_NonSuccessStatus ==
  upstreamStatus \in ErrorStatuses =>
     /\ feed = <<>>
     /\ EventCount(events, "status") = 0
     /\ EventCount(events, "text") = 0
     /\ EventCount(events, "done") = 0
     /\ pc = "finished" =>
          /\ closed
          /\ Len(events) = 1
          /\ events[1].event = "error"
          /\ raised = "none" =>
               events[1] = ErrorEvent(<<"Claude API error", upstreamStatus>>)

C8_Witness ==
  /\ pc = "finished"
  /\ upstreamStatus = 529
  /\ raised = "none"
  /\ events = <<ErrorEvent(<<"Claude API error", 529>>)>>

\* C9: once an awaited operation (opening the connection, reading the error
\* body, reading the feed) has raised, the invocation has finished with the
\* stream closed, its last event is the one error event for that exception,
\* and there is no done event.
C9_ExceptionBecomesError ==
  raised # "none" =>
     /\ pc = "finished"
     /\ closed
     /\ EventCount(events, "error") = 1
     /\ LastEvent = ErrorEvent(<<"exception", raised>>)
     /\ EventCount(events, "done") = 0

C9_Witness ==
  /\ raised = "read"
  /\ EventCount(events, "text") >= 1
  /\ EventCount(events, "status") >= 1
  /\ LastEvent.event = "error"

(***************************************************************************)
(* Claims about the credential lifecycle                                   *)
(***************************************************************************)

\* C10: when the store lookup of a getGoogleAccessToken call resolves and
\* the account has no record, or a record without a refresh token, the call
\* returns absent in that very step, having made no network call, and the
\* token store is left as it was.
C10_AbsentWithoutNetwork ==
  [][\A c \in Calls :
       (/\ calls[c].pc = "get"
        /\ calls'[c].pc # "get"
        /\ \/ ~store[calls[c].user].exists
           \/ store[calls[c].user].refresh_token = Undefined)
       => /\ calls'[c].pc = "returned"
          /\ calls'[c].result = Null
          /\ calls'[c].net = 0
          /\ calls'[c].writes = 0
          /\ store' = store]_vars

\* a call answered absent from a record that exists but has no refresh token
C10_Witness ==
  \E c \in Calls :
     /\ calls[c].pc = "returned"
     /\ calls[c].stored.exists
     /\ calls[c].stored.refresh_token = Undefined
     /\ calls[c].stored.access_token # Undefined
     /\ calls[c].result = Null
     /\ calls[c].net = 0

\* C11: when the store lookup of a getGoogleAccessToken call resolves, the
\* call returns the stored access token unchanged, with no network call
\* and no store write, exactly when the record has a refresh token and an
\* access token and the current instant is strictly earlier than the stored
\* expiry minus the safety margin; with a refresh token and the instant at
\* or past that point it issues a refresh instead. A token served from the
\* cache has more than the margin of validity left.
C11_CacheHitIffBeforeMargin ==
  [][\A c \in Calls :
       (calls[c].pc = "get" /\ calls'[c].pc # "get")
       => LET rec == store[calls[c].user]
              fresh == /\ rec.exists
                       /\ rec.refresh_token # Undefined
                       /\ rec.access_token # Undefined
                       /\ now < rec.expires_at - SafetyMarginMs
              served == /\ calls'[c].pc = "returned"
                        /\ calls'[c].result = rec.access_token
                        /\ calls'[c].result \notin {Null, Undefined}
          IN  /\ fresh <=> served
              /\ served => /\ calls'[c].net = 0
                           /\ calls'[c].writes = 0
                           /\ store' = store
                           /\ rec.expires_at - now > SafetyMarginMs
              /\ (/\ rec.exists
                  /\ rec.refresh_token # Undefined
                  /\ now >= rec.expires_at - SafetyMarginMs)
                 => /\ calls'[c].pc = "refresh"
                    /\ calls'[c].net = 1]_vars

\* one call was answered from the cache, and a later call for a record read
\* exactly at expiry minus the margin is refreshing
C11_Witness ==
  \E c, d \in Calls :
     /\ calls[c].pc = "returned"
     /\ calls[c].result = calls[c].stored.access_token
     /\ calls[c].result \notin {Null, Undefined}
     /\ calls[c].net = 0
     /\ calls[d].pc = "refresh"
     /\ calls[d].stored.expires_at - SafetyMarginMs = now

\* a call that has returned absent after the provider rejected its refresh
RevokedReturn(k) ==
  k.pc = "returned" /\ k.net = 1 /\ k.writes = 1 /\ k.result = Null

\* the account's record stems from an authorization other than the one
\* whose record the call k read
Reauthorized(rec, k) ==
  rec.exists /\ rec.refresh_token # k.stored.refresh_token

\* the outcome of a getGoogleAccessToken lookup for the account of k that
\* resolves in the current state
LookupNow(k) == AfterGet([IdleCall EXCEPT !.pc = "get", !.user = k.user],
                         store[k.user], now)

AbsentWithoutNetwork(k) ==
  k.pc = "returned" /\ k.result = Null /\ k.net = 0

RacingRefreshWritten(d) ==
  \E e \in Calls \ {d} :
     /\ calls[e].user = calls[d].user
     /\ calls[e].pc = "returned"
     /\ calls[e].writes = 1
     /\ calls[e].result # Null
     /\ calls[e].stored.refresh_token = calls[d].stored.refresh_token

RevokedStaysAbsent ==
  \A d \in Calls :
     (/\ RevokedReturn(calls[d])
      /\ ~Reauthorized(store[calls[d].user], calls[d])
      /\ ~RacingRefreshWritten(d))
     => AbsentWithoutNetwork(LookupNow(calls[d]))

C13_RefreshWritesWholeRecord ==
  [][\A c \in Calls :
       /\ (calls[c].pc = "refresh" /\ calls'[c].pc = "put")
          => LET read == calls[c].stored
                 built == calls'[c].pending
             IN  /\ built.exists
                 /\ built.refresh_token = read.refresh_token
                 /\ built.email = read.email
                 /\ built.connected_at = read.connected_at
                 /\ built.access_token = AccessTokens[issued']
                 /\ built.access_token # read.access_token
                 /\ \E e \in ExpiresInSeconds :
                      built.expires_at = now + e * MsPerSecond
                 /\ calls'[c].result = built.access_token
       /\ (calls[c].pc = "put" /\ calls'[c].pc # "put")
          => /\ store'[calls[c].user] = calls[c].pending
             /\ \A k \in Keys \ {calls[c].user} : store'[k] = store[k]
             /\ calls'[c].pc = "returned"
             /\ calls'[c].result = calls[c].pending.access_token
             /\ calls'[c].writes = 1]_vars

\* a refreshed record is in the store: it carries the label and timestamp
\* of the authorization, a token other than the one the call read, and a
\* later expiry
C13_Witness ==
  \E c \in Calls :
     /\ calls[c].pc = "returned"
     /\ calls[c].writes = 1
     /\ calls[c].result \notin {Null, Undefined}
     /\ store[calls[c].user] = calls[c].pending
     /\ store[calls[c].user].email \in Emails
     /\ store[calls[c].user].access_token = calls[c].result
     /\ store[calls[c].user].access_token # calls[c].stored.access_token
     /\ store[calls[c].user].refresh_token = calls[c].stored.refresh_token
     /\ store[calls[c].user].expires_at > calls[c].stored.expires_at

\* the call has completed a refresh: it wrote the record it built and
\* returned the new token
RefreshedReturn(k) ==
  k.pc = "returned" /\ k.net = 1 /\ k.writes = 1 /\ k.result # Null

\* the lookup of call c resolves after call d, for the same account,
\* completed a refresh whose record is still the stored one
LookupFollowsRefresh(c, d) ==
  /\ d # c
  /\ calls[d].user = calls[c].user
  /\ RefreshedReturn(calls[d])
  /\ store[calls[c].user] = calls[d].pending
  /\ calls[c].pc = "get"
  /\ calls'[c].pc # "get"

\* C14 as stated: when a call follows, within the safety margin, a call for
\* the same account that refreshed, it is answered from the stored record,
\* so the two calls make one refresh request in total.  (The clock starts
\* at 0, so an instant below the margin is within the margin of every
\* earlier call.)
C14_SecondCallNeverRefreshes ==
  [][\A c, d \in Calls :
       (LookupFollowsRefresh(c, d) /\ now < SafetyMarginMs)
       => /\ calls'[c].pc = "returned"
          /\ calls'[c].result = calls[d].result
          /\ calls[d].net + calls'[c].net <= 1]_vars

\* C14, amended: a call whose lookup follows a completed refresh for the
\* same account is answered from the stored record, without a second
\* refresh request, exactly when the instant of the lookup is earlier than
\* the refreshed expiry minus the safety margin, that is, when the duration
\* the provider reported exceeds the margin by more than the time elapsed
\* since the refresh; otherwise the second call refreshes again.
C14_SecondCallCachedWhileFresh ==
  [][\A c, d \in Calls :
       LookupFollowsRefresh(c, d)
       => IF now < calls[d].pending.expires_at - SafetyMarginMs
          THEN /\ calls'[c].pc = "returned"
               /\ calls'[c].result = calls[d].result
               /\ calls'[c].net = 0
               /\ calls[d].net + calls'[c].net = 1
          ELSE /\ calls'[c].pc = "refresh"
               /\ calls[d].net + calls'[c].net = 2]_vars

\* the first call refreshed and the second call, for the same account, was
\* answered with the first call's token from the record the first wrote
C14_Witness ==
  \E c, d \in Calls :
     /\ d < c
     /\ calls[d].user = calls[c].user
     /\ RefreshedReturn(calls[d])
     /\ calls[c].pc = "returned"
     /\ calls[c].stored = calls[d].pending
     /\ calls[c].result = calls[d].result
     /\ calls[c].net = 0

\* C15: a getGoogleAccessToken call completes only by returning a token or
\* absent; no call is left by an exception, whatever the provider's answer
\* to the refresh request and whether or not the exchange itself fails.
C15_NeverRaises ==
  \A c \in Calls :
     /\ calls[c].pc # "threw"
     /\ calls[c].pc = "returned" => calls[c].result # Undefined

(***************************************************************************)
(* Claims about the calendar and mail merge                                *)
(***************************************************************************)
Usable(tok) == tok \notin {Null, Undefined}

\* the field a handler's records are ordered by
TimeOf(kind, r) == IF kind = "calendar" THEN r.start ELSE r.timestamp

\* the items of the merged result that are tagged with account u
RecordsOf(kind, records, u) ==
  {[id |-> records[i].id, t |-> TimeOf(kind, records[i])] :
     i \in {j \in 1..Len(records) : records[j].owner = u}}

\* what the delivered items ds are to appear as in the merged result: a
\* message's timestamp is its internalDate as a number, 0 without one
Expected(kind, ds) ==
  {[id |-> d.id,
    t |-> IF kind = "calendar" THEN d.t
          ELSE IF d.t = Undefined THEN 0 ELSE ParseInt(d.t)] : d \in ds}

AbsentTokenNeverRequests ==
  \A u \in VALID_USERS :
     merge.yielded[u] = Null => u \notin merge.requested

MergedHasDeliveredOfTokenHolders ==
  merge.pc = "returned"
  => /\ merge.response.status = 200
     /\ \A u \in VALID_USERS :
          /\ merge.yielded[u] # Undefined
          /\ Usable(merge.yielded[u])
             => Expected(merge.kind, merge.delivered[u]) \subseteq
                  RecordsOf(merge.kind, merge.response.records, u)

\* C16: an account for which getGoogleAccessToken returned absent is
\* skipped without error and no data request is made for it; the handler
\* goes on to the next account (or, after the last, to the sort), and the
\* merged result contains every item delivered for the accounts that had a
\* token.
C16_AbsentTokenSkipped ==
  /\ []AbsentTokenNeverRequests
  /\ []MergedHasDeliveredOfTokenHolders
  /\ [][(/\ merge.pc = "token"
         /\ merge' # merge
         /\ calls[merge.idx].pc = "returned"
         /\ calls[merge.idx].result = Null)
        => /\ merge'.pc # "failed"
           /\ merge'.yielded[UserOrder[merge.idx]] = Null
           /\ merge'.requested = merge.requested
           /\ merge'.delivered = merge.delivered
           /\ Len(merge'.acc) = Len(merge.acc)
           /\ IF merge.idx < Len(UserOrder)
              THEN /\ merge'.pc = "token"
                   /\ merge'.idx = merge.idx + 1
                   /\ calls'[merge'.idx].pc = "get"
                   /\ calls'[merge'.idx].user = UserOrder[merge'.idx]
              ELSE merge'.pc = "connected"]_vars

\* a merged result in which the first account had no token and made no
\* data request, and the second account's items are present
C16_Witness ==
  /\ merge.pc = "returned"
  /\ merge.yielded["chris"] = Null
  /\ "chris" \notin merge.requested
  /\ Usable(merge.yielded["wife"])
  /\ merge.delivered["wife"] # {}
  /\ Len(merge.response.records) = Cardinality(merge.delivered["wife"])

\* C17: no failure confined to one account aborts a merge: whether an
\* account's token refresh fails, its data request is answered not ok, or
\* its data request raises, the handler does not end in an exception and
\* the answer it gives is the merged result.
C17_MergeNeverAborts ==
  /\ merge.pc # "failed"
  /\ merge.response.status \in {NoResponse.status, 200}

\* C18: the sequence handleCalendar returns is in ascending order of start
\* and the sequence handleGmail returns is in descending order of
\* timestamp, whatever the accounts delivered.
C18_MergedSorted ==
  merge.pc = "returned"
  => LET rs == merge.response.records
     IN  \A i, j \in 1..Len(rs) :
            i < j => IF merge.kind = "calendar"
                     THEN NewDate(rs[i].start) <= NewDate(rs[j].start)
                     ELSE rs[i].timestamp >= rs[j].timestamp

\* a merged result of three records from both accounts in which a record
\* of the account read last precedes, with a different instant, a record
\* of the account read first
C18_Witness ==
  /\ merge.pc = "returned"
  /\ Len(merge.response.records) = 3
  /\ \E i, j \in 1..3 :
        /\ i < j
        /\ merge.response.records[i].owner = UserOrder[2]
        /\ merge.response.records[j].owner = UserOrder[1]
        /\ TimeOf(merge.kind, merge.response.records[i])
             # TimeOf(merge.kind, merge.response.records[j])

\* the number of records of the merged result tagged with account u
CountOf(records, u) ==
  Cardinality({i \in 1..Len(records) : records[i].owner = u})

\* C19: the merged result holds, for every account, exactly the items the
\* provider delivered in a completed read of that account, each once and
\* tagged with that account, and nothing else.
C19_ExactlyTheDelivered ==
  merge.pc = "returned"
  => LET rs == merge.response.records
     IN  /\ \A u \in VALID_USERS :
              /\ RecordsOf(merge.kind, rs, u)
                   = Expected(merge.kind, merge.delivered[u])
              /\ CountOf(rs, u) = Cardinality(merge.delivered[u])
         /\ \A i \in 1..Len(rs) : rs[i].owner \in VALID_USERS
         /\ Len(rs) = CountOf(rs, UserOrder[1]) + CountOf(rs, UserOrder[2])

\* the first account delivered two items and the second one: the merged
\* result has three records
C19_Witness ==
  /\ merge.pc = "returned"
  /\ Cardinality(merge.delivered[UserOrder[1]]) = 2
  /\ Cardinality(merge.delivered[UserOrder[2]]) = 1
  /\ Len(merge.response.records) = 3
  /\ CountOf(merge.response.records, UserOrder[1]) = 2

SeqRange(s) == {s[i] : i \in 1..Len(s)}

\* C20 as stated: the accounts a merge reports as connected are exactly the
\* accounts for which getGoogleAccessToken returned a token during the
\* request.
C20_ConnectedIffYieldedToken ==
  merge.pc = "returned"
  => SeqRange(merge.response.connected_users)
       = {u \in VALID_USERS : Usable(merge.yielded[u])}

\* C20, amended: the accounts a merge reports as connected are the accounts
\* that have a stored record when the handler, after the merge loop, looks
\* each one up, whatever their token call returned and whether or not any
\* item was fetched; any_connected tells whether there is one.
C20_ConnectedIffRecordStored ==
  [][(merge.pc = "connected" /\ merge' # merge)
     => LET u == UserOrder[merge.cidx]
        IN  /\ merge'.connected = IF store[u].exists
                                  THEN Append(merge.connected, u)
                                  ELSE merge.connected
            /\ IF merge.cidx < Len(UserOrder)
               THEN merge'.pc = "connected" /\ merge'.cidx = merge.cidx + 1
               ELSE /\ merge'.pc = "returned"
                    /\ merge'.response.records = merge.acc
                    /\ merge'.response.connected_users = merge'.connected
                    /\ merge'.response.any_connected
                         = (merge'.connected # <<>>)]_vars

\* a merged result that reports as connected an account whose token call
\* returned absent, next to an account that yielded a token and no item
C20_Witness ==
  /\ merge.pc = "returned"
  /\ \E u, v \in VALID_USERS :
        /\ merge.yielded[u] = Null
        /\ Usable(merge.yielded[v])
        /\ merge.delivered[v] = {}
        /\ {u, v} \subseteq SeqRange(merge.response.connected_users)
  /\ merge.response.any_connected

(***************************************************************************)
(* Claims about disconnect, racing refreshes and the OAuth callback        *)
(***************************************************************************)
\* a step of handleDisconnect given the user parameter k
DisconnectStep(k) ==
  /\ ops' = ops + 1
  /\ calls' = calls
  /\ merge' = merge
  /\ reply'.handler = "disconnect"
  /\ reply'.user = k

\* C21: a disconnect of a valid account answers success and leaves that
\* account's record absent and every other record as it was, so that a
\* disconnect of an account that has no record (a second disconnect included)
\* leaves the whole store as it was; a disconnect naming anything outside
\* VALID_USERS is answered as invalid and leaves the store unchanged.
C21_DisconnectIdempotent ==
  [][\A k \in Keys :
       DisconnectStep(k) =>
         IF k \in VALID_USERS
           THEN /\ reply'.outcome = "success"
                /\ store'[k] = NoRecord
                /\ \A j \in Keys \ {k} : store'[j] = store[j]
                /\ (store[k] = NoRecord => store' = store)
           ELSE /\ reply'.outcome = "invalid"
                /\ store' = store]_vars

\* a valid account was disconnected while another key still holds a record
C21_Witness ==
  /\ reply.handler = "disconnect"
  /\ reply.outcome = "success"
  /\ store[reply.user] = NoRecord
  /\ \E j \in Keys : store[j].exists

\* calls c and d race: they are for the same account and both read the same
\* stored record before either wrote
Racing(c, d) ==
  /\ c # d
  /\ calls[c].user = calls[d].user
  /\ calls[c].stored.exists
  /\ calls[c].stored = calls[d].stored

\* C22: when two getGoogleAccessToken calls for one account race and both
\* refresh successfully, the write that happens last leaves as stored record
\* exactly the record that call built (all its fields, none from the other
\* call's record), with the refresh token both calls read, and each call
\* returns the access token the provider gave to it.
C22_LastWriteWinsWhole ==
  [][\A c, d \in Calls :
       ( /\ Racing(c, d)
         /\ RefreshedReturn(calls[d])
         /\ calls[c].pc = "put"
         /\ calls'[c].pc # "put" )
       => LET u == calls[c].user
              mine == calls[c].pending
              other == calls[d].pending
          IN  /\ store'[u] = mine
              /\ mine = [calls[c].stored EXCEPT
                           !.access_token = calls'[c].result,
                           !.expires_at = mine.expires_at]
              /\ store'[u].refresh_token = calls[d].stored.refresh_token
              /\ store'[u].access_token # other.access_token
              /\ calls'[c].pc = "returned"
              /\ calls'[c].result = mine.access_token
              /\ calls'[d].result = other.access_token
              /\ calls'[c].result # calls'[d].result]_vars

\* both racing calls have refreshed and written: the store holds the record
\* of one of them, which differs from the other's
C22_Witness ==
  \E c, d \in Calls :
     /\ Racing(c, d)
     /\ RefreshedReturn(calls[c])
     /\ RefreshedReturn(calls[d])
     /\ store[calls[c].user] = calls[c].pending
     /\ calls[c].pending # calls[d].pending
     /\ calls[c].pending.expires_at # calls[d].pending.expires_at
     /\ calls[c].result # calls[d].result

\* the record carries the three credential fields
HasCredentials(r) ==
  /\ r.exists
  /\ r.refresh_token \in SeqRange(RefreshTokens)
  /\ r.access_token \in SeqRange(AccessTokens)
  /\ r.expires_at \in Nat

\* some call of getGoogleAccessToken moves in this step
CallMoves(c) == calls'[c] # calls[c]

\* C23: getGoogleAccessToken changes the store only at its put and at its
\* delete.  The put follows a refresh the provider answered with a token (one
\* request made, the token the call is about to return) and writes a record
\* that has a refresh token, an access token and an expiry; the delete
\* removes the account's record as a whole; each touches no other key; every
\* other step of a call leaves the store as it was.
C23_StoreNeverHalfUpdated ==
  [][\A c \in Calls :
       CallMoves(c) =>
         LET u == calls[c].user
         IN  CASE calls[c].pc = "put" ->
                    /\ calls[c].net = 1
                    /\ calls[c].result = calls[c].pending.access_token
                    /\ HasCredentials(calls[c].pending)
                    /\ store' = [store EXCEPT ![u] = calls[c].pending]
               [] calls[c].pc = "delete" ->
                    /\ store' = [store EXCEPT ![u] = NoRecord]
                    /\ calls'[c].result = Null
               [] OTHER -> store' = store]_vars

\* a call returned absent after deleting a record, another returned a token
\* without writing: the record is whole or gone
C23_Witness ==
  \E c, d \in Calls :
     /\ calls[c].pc = "returned"
     /\ calls[c].result = Null
     /\ calls[c].writes = 1
     /\ calls[c].stored.exists
     /\ calls[d].pc \in {"returned", "threw"}
     /\ calls[d].writes = 0
     /\ calls[d].stored.exists
     /\ \A k \in VALID_USERS : store[k] = NoRecord \/ HasCredentials(store[k])

(***************************************************************************)
(* Claims about status events, tool input and skipped lines                *)
(***************************************************************************)
\* the number of text_delta fragments among frags
TextCount(frags) == Len(SelectSeq(frags, LAMBDA a : a \in TextAtoms))

\* position of the first thinking-start among the fragments, or 0
FirstThinkingStart(frags) ==
  IF \E i \in 1..Len(frags) : frags[i] = "ThinkStart"
  THEN CHOOSE i \in 1..Len(frags) :
         frags[i] = "ThinkStart"
         /\ \A j \in 1..(i - 1) : frags[j] # "ThinkStart"
  ELSE 0

\* the number of events sent for the first n fragments, not counting the
\* event of fragment n itself
EventsBefore(frags, n) ==
  LET before == SubSeq(frags, 1, n - 1)
  IN TextCount(before)
     + (IF FirstThinkingStart(before) # 0 THEN 1 ELSE 0)
     + (IF FirstToolStart(before) # 0 THEN 1 ELSE 0)

\* C24: the 'Building page...' status is on the output at most once; it is
\* there exactly when a tool-start fragment has arrived, at the place of the
\* first one (after the events of the fragments that came before it), so
\* that later tool-starts add nothing; and a done event that carries a page
\* comes after it.
C24_BuildingStatusOnceAtFirstToolStart ==
  LET frags == FeedFragments(feed)
      k == FirstToolStart(frags)
      b == BuildingIndex(events)
  IN /\ Cardinality({i \in 1..Len(events) : IsBuildingStatus(events[i])}) <= 1
     /\ (b # 0) <=> (k # 0)
     /\ k # 0 => b = EventsBefore(frags, k) + 1
     /\ \A i \in 1..Len(events) :
          (events[i].event = "done" /\ ~events[i].page.isNull)
          => (b # 0 /\ b < i)

\* two tool-starts have arrived, the first after a text delta: one status
C24_Witness ==
  /\ pc = "read"
  /\ FeedFragments(feed) = <<"T_a", "ToolOther", "ToolPage">>
  /\ Len(toolCalls) = 2
  /\ events = <<TextEvent(<<"a">>), StatusEvent(StatusBuilding)>>

IsThinkingStatus(e) == e.event = "status" /\ e.text = StatusThinking

\* position of the first 'thinking' status event on the output, or 0
ThinkingIndex(evs) ==
  IF \E i \in 1..Len(evs) : IsThinkingStatus(evs[i])
  THEN CHOOSE i \in 1..Len(evs) :
         IsThinkingStatus(evs[i])
         /\ \A j \in 1..(i - 1) : ~IsThinkingStatus(evs[j])
  ELSE 0

\* the fragments without the thinking_delta ones
WithoutThinkingDeltas(frags) == SelectSeq(frags, LAMBDA a : a # "ThinkDelta")

\* C25: the 'Thinking...' status is on the output at most once; it is there
\* exactly when a thinking-start fragment has arrived, at the place of the
\* first one.  A thinking_delta fragment sends nothing: the text events are
\* those of the text_delta fragments, the number of events is what the other
\* fragments account for, and the message of the done event is the trimmed
\* text of the text_delta fragments (or the default message).
C25_ThinkingStatusOnceContentHidden ==
  LET frags == FeedFragments(feed)
      k == FirstThinkingStart(frags)
      t == ThinkingIndex(events)
  IN /\ Cardinality({i \in 1..Len(events) : IsThinkingStatus(events[i])}) <= 1
     /\ (t # 0) <=> (k # 0)
     /\ k # 0 => t = EventsBefore(frags, k) + 1
     /\ upstreamStatus \in OkStatuses =>
          /\ TextPayloads(events)
               = ArrivedDeltas(WithoutThinkingDeltas(frags))
          /\ EventCount(events, "text") + EventCount(events, "status")
               = EventsBefore(frags, Len(frags) + 1)
          /\ \A i \in 1..Len(events) :
               events[i].event = "done" =>
                 events[i].message \in
                   {Trim(Concat(ArrivedDeltas(WithoutThinkingDeltas(frags)))),
                    DefaultMessage}

\* thinking started twice and a thinking delta arrived: one status, no text
C25_Witness ==
  /\ pc = "finished"
  /\ feedEnded
  /\ FeedFragments(feed) = <<"ThinkStart", "ThinkDelta", "ThinkStart">>
  /\ events = <<StatusEvent(StatusThinking),
                DoneEvent([message |-> <<>>, page |-> NullPage])>>

\* the accumulators the arrived fragments call for: one per tool-start, in
\* order, each holding the input_json_delta payloads that arrived after its
\* tool-start and before the next one
RECURSIVE Accumulators(_)
Accumulators(frags) ==
  IF frags = <<>> THEN <<>>
  ELSE IF IsToolStart(Head(frags))
       THEN <<[name |-> ToolName(Head(frags)),
               input_json |-> JsonUntilNextStart(Tail(frags))]>>
            \o Accumulators(Tail(frags))
       ELSE Accumulators(Tail(frags))

\* C26: in every state the tool accumulators are one per tool-start that
\* arrived, and each holds, in arrival order, exactly the input_json_delta
\* payloads that arrived while it was the most recently started one; a delta
\* that arrived before any tool-start is in no accumulator.  The deltas
\* reach neither the narrative text nor the output: the text is that of the
\* text_delta fragments, and every text or status event is accounted for by
\* a text_delta or a first block start.
C26_JsonDeltasToLatestToolOnly ==
  LET frags == FeedFragments(feed)
  IN upstreamStatus \in OkStatuses =>
       /\ toolCalls = Accumulators(frags)
       /\ fullMessageText = ArrivedText(feed)
       /\ TextPayloads(events) = ArrivedDeltas(frags)
       /\ EventCount(events, "text") + EventCount(events, "status")
            = EventsBefore(frags, Len(frags) + 1)

\* a delta arrived before the tool-start and one after it: the accumulator
\* holds the second only
C26_Witness ==
  /\ pc = "read"
  /\ FeedFragments(feed) = <<"J_open", "ToolPage", "J_rest">>
  /\ toolCalls = <<[name |-> "generate_page",
                    input_json |-> <<",", "H", "}">>]>>
  /\ fullMessageText = <<>>
  /\ events = <<StatusEvent(StatusBuilding)>>

\* the lines of the feed whose terminator has arrived, without the lines
\* the loop skips: empty lines, the [DONE] sentinel, unparseable bodies
KeptLines(f) ==
  LET kept == SelectSeq(FeedFragments(f), LAMBDA a : a \notin {"DONE", "Bad"})
  IN [i \in 1..Len(kept) |-> <<kept[i]>>]

\* the relay's variables as the stream task declares them (187-191)
FreshRelay ==
  [text |-> <<>>, tools |-> <<>>, page |-> FALSE, think |-> FALSE,
   w |-> [events |-> <<>>, closed |-> FALSE, closeCalls |-> 0]]

\* some skipped line has arrived
SkippedLineArrived(f) ==
  Len(KeptLines(f)) < Len(CompleteLines(f))

\* C27: the relay's state and output are in every state what the same feed
\* without its skipped lines gives: the narrative text, the accumulators,
\* the two status flags and the events are those of processing only the
\* other lines, in order, and the done event is built from that state.
C27_SkippedLinesLeaveNoTrace ==
  LET r == ProcessLines(FreshRelay, KeptLines(feed))
  IN upstreamStatus \in OkStatuses =>
       /\ fullMessageText = r.text
       /\ toolCalls = r.tools
       /\ sentPageStatus = r.page
       /\ sentThinkingStatus = r.think
       /\ pc = "read" => events = r.w.events
       /\ (pc = "finished" /\ feedEnded) =>
            events = Append(r.w.events,
                            DoneEvent(BuildResult(r.text, r.tools)))

\* an unparseable line and an empty line came before a text delta
C27_Witness ==
  /\ pc = "read"
  /\ feed = <<"Bad", NL, NL, "T_a", NL>>
  /\ SkippedLineArrived(feed)
  /\ fullMessageText = <<"a">>
  /\ events = <<TextEvent(<<"a">>)>>

\* C28: the message of the done event is the default acknowledgement exactly
\* when the trimmed narrative text is empty and the event carries a page;
\* with an empty trimmed text and no page the message is empty; a non-empty
\* trimmed text is the message, whether or not there is a page.
C28_DefaultMessageIffEmptyAndPage ==
  LET narrative == Trim(ArrivedText(feed))
  IN \A i \in 1..Len(events) :
       events[i].event = "done" =>
         LET e == events[i]
         IN /\ (e.message = DefaultMessage)
                 <=> (narrative = <<>> /\ ~e.page.isNull)
            /\ (narrative = <<>> /\ e.page.isNull) => e.message = <<>>
            /\ narrative # <<>> => e.message = narrative

\* no text arrived and the page was built: the default message is sent
C28_Witness ==
  /\ pc = "finished"
  /\ feedEnded
  /\ FeedFragments(feed) = <<"ToolPage", "J_open", "J_close">>
  /\ fullMessageText = <<>>
  /\ LastEvent = DoneEvent([message |-> DefaultMessage,
                            page |-> Page(PathValue, Undefined)])

\* the state of the relay after one read that delivers the whole of f
OneRead(f) == OnChunk(FreshRelay, <<>>, f)

\* C29: however the delivered characters were cut into reads, the relay is
\* where a single read of all of them would have put it: the same events in
\* the same order, the same narrative text, accumulators and flags, the same
\* unfinished line kept back; and when the feed ends the same done event
\* follows.  Two ways of cutting the same feed therefore give the same
\* output.
C29_OutputIndependentOfReads ==
  LET r == OneRead(feed)
  IN upstreamStatus \in OkStatuses =>
       /\ fullMessageText = r.text
       /\ toolCalls = r.tools
       /\ sentPageStatus = r.page
       /\ sentThinkingStatus = r.think
       /\ buffer = Split(feed)[Len(Split(feed))]
       /\ pc = "read" => events = r.w.events
       /\ pc = "finished" =>
            events = Append(r.w.events,
                            DoneEvent(BuildResult(r.text, r.tools)))

\* a feed longer than two reads, with a line of two pieces, has ended
C29_Witness ==
  /\ pc = "finished"
  /\ feedEnded
  /\ feed = <<"T_a", "ToolPage", NL, "T_a", NL, "T_a">>
  /\ Len(feed) > MaxChunk
  /\ events = <<TextEvent(<<"a">>),
                DoneEvent([message |-> <<"a">>, page |-> NullPage])>>

\* a step of handleGoogleCallback
CallbackStep ==
  /\ ops' = ops + 1
  /\ calls' = calls
  /\ merge' = merge
  /\ reply'.handler = "callback"

\* Date.parse of a connected_at text: the instant it denotes
DateParse(iso) == ((iso.h * 60 + iso.m) * 60 + iso.s) * MsPerSecond + iso.ms

C31_NoAutomaticRetry ==
  /\ fetchCalls <= 1
  /\ pc # "start" => fetchCalls = 1
  /\ \A c \in Calls :
       /\ calls[c].net <= 1
       /\ calls[c].pc \in {"refresh", "put", "delete", "threw"}
            => calls[c].net = 1

\* the upstream request failed and the invocation finished; one call's
\* refresh was answered with an error and another's failed
C31_Witness ==
  /\ pc = "finished"
  /\ raised = "fetch"
  /\ fetchCalls = 1
  /\ \E c, d \in Calls :
       /\ calls[c].pc = "threw"
       /\ calls[c].net = 1
       /\ calls[d].pc = "returned"
       /\ calls[d].result = Null
       /\ calls[d].writes = 1
       /\ calls[d].net = 1

\* C32 as stated: while the latest answer of the callback and disconnect
\* handlers is the success of a disconnect of account k (no callback has
\* succeeded since), the record of k is absent, whatever getGoogleAccessToken
\* calls are in flight.
C32_DisconnectedStaysAbsent ==
  \A k \in VALID_USERS :
     reply = Reply("disconnect", k, "success") => store[k] = NoRecord

\* the stored record of the call's account comes from another authorization
\* than the record the call read
NewerAuthorization(c) ==
  LET cur == store[calls[c].user]
  IN /\ cur.exists
     /\ cur.refresh_token # calls[c].stored.refresh_token

\* C33 as stated: when a call's delete or put resolves while the store holds
\* a record of a more recent authorization, that record is left as it is.
C33_ActsOnlyOnVersionRead ==
  [][\A c \in Calls :
       ( /\ calls[c].pc \in {"put", "delete"}
         /\ calls'[c].pc = "returned"
         /\ NewerAuthorization(c) )
       => store'[calls[c].user] = store[calls[c].user]]_vars

\* C34 as stated: in every state the store holds records only under the
\* keys of VALID_USERS.
C34_OnlyValidUserKeys ==
  \A k \in Keys \ VALID_USERS : store[k] = NoRecord

(***************************************************************************)
(* Claims about the artifact, the narrative text and the writer            *)
(***************************************************************************)
\* C35 as stated: a done event whose page is not null carries a page with
\* both a path and an html body.
C35_ArtifactHasBothFields ==
  \A i \in 1..Len(events) :
     (events[i].event = "done" /\ ~events[i].page.isNull)
     => /\ events[i].page.path # Undefined
        /\ events[i].page.html # Undefined

\* the texts of the text events on the output, joined without trimming
ForwardedText == Concat(TextPayloads(events))

\* C36: in every state of a relay with a successful upstream the joined
\* texts of the forwarded text events are the narrative accumulator, and a
\* done event carries as message their trimmed join, or the default
\* acknowledgement when that is empty and the event has a page.
C36_ForwardedTextIsNarrative ==
  upstreamStatus \in OkStatuses =>
    /\ ForwardedText = fullMessageText
    /\ \A i \in 1..Len(events) :
         events[i].event = "done" =>
           events[i].message =
             IF Trim(ForwardedText) = <<>> /\ ~events[i].page.isNull
             THEN DefaultMessage ELSE Trim(ForwardedText)

\* the feed completed after three text deltas, blanks among them
C36_Witness ==
  /\ pc = "finished"
  /\ feedEnded
  /\ FeedFragments(feed) = <<"T_sp", "T_b", "T_a">>
  /\ ForwardedText = <<" ", "b", " ", "a">>
  /\ LastEvent = DoneEvent([message |-> <<"b", " ", "a">>, page |-> NullPage])

\* C37: when the feed has ended on a line without terminator, that line is
\* still in the buffer and nothing of it is anywhere else: the text events,
\* the number of events, the accumulators and the done event are those of
\* the terminated lines alone.
C37_UnterminatedLastLineDiscarded ==
  LET frags == FeedFragments(feed)
      narrative == Trim(ArrivedText(feed))
      page == PageOf(Accumulators(frags))
  IN (pc = "finished" /\ feedEnded /\ LineOpen(feed)) =>
       /\ buffer = <<feed[Len(feed)]>>
       /\ TextPayloads(events) = ArrivedDeltas(frags)
       /\ EventCount(events, "text") + EventCount(events, "status")
            = EventsBefore(frags, Len(frags) + 1)
       /\ Len(events) = EventsBefore(frags, Len(frags) + 1) + 1
       /\ toolCalls = Accumulators(frags)
       /\ LastEvent = DoneEvent([message |-> IF narrative = <<>> /\ ~page.isNull
                                             THEN DefaultMessage
                                             ELSE narrative,
                                 page |-> page])

\* the feed ended after a text delta whose line has no terminator
C37_Witness ==
  /\ pc = "finished"
  /\ feedEnded
  /\ feed = <<"T_a", NL, "T_b">>
  /\ buffer = <<"T_b">>
  /\ events = <<TextEvent(<<"a">>),
                DoneEvent([message |-> <<"a">>, page |-> NullPage])>>

\* the number of generate_page tool-starts among the fragments
PageStartCount(frags) == Len(SelectSeq(frags, LAMBDA a : a = "ToolPage"))

\* the number of tool-starts among the first n fragments
ToolStartsUpTo(frags, n) ==
  Len(SelectSeq(SubSeq(frags, 1, n), LAMBDA a : IsToolStart(a)))

\* the artifact a buffer of JSON tokens stands for
ArtifactOf(buf) ==
  IF buf \in WellFormedJsonTexts
  THEN Page(IF \E i \in 1..Len(buf) : buf[i] = "P"
            THEN PathValue ELSE Undefined,
            IF \E i \in 1..Len(buf) : buf[i] = "H"
            THEN HtmlValue ELSE Undefined)
  ELSE NullPage

\* C38: when more than one generate_page tool-start has arrived, the
\* accumulator of the first of them holds the input deltas that arrived
\* before the next tool-start and none that arrived later, and the artifact
\* of the done event is built from that buffer alone.
C38_ArtifactFromFirstPageCall ==
  LET frags == FeedFragments(feed)
      first == ToolStartsUpTo(frags, FirstPageStart(frags))
  IN PageStartCount(frags) > 1 =>
       /\ toolCalls[first].name = "generate_page"
       /\ \A j \in 1..(first - 1) : toolCalls[j].name # "generate_page"
       /\ toolCalls[first].input_json = PageInputBuffer(feed)
       /\ \A i \in 1..Len(events) :
            events[i].event = "done" =>
              events[i].page = ArtifactOf(PageInputBuffer(feed))

\* the whole page input arrived after the second generate_page tool-start:
\* the first buffer is empty and the done event has no artifact
C38_Witness ==
  /\ pc = "finished"
  /\ feedEnded
  /\ FeedFragments(feed) = <<"ToolPage", "ToolPage", "J_full">>
  /\ toolCalls = <<[name |-> "generate_page", input_json |-> <<>>],
                   [name |-> "generate_page",
                    input_json |-> CompletePageJson]>>
  /\ LastEvent = DoneEvent([message |-> <<>>, page |-> NullPage])

\* the step is one of the callback or of disconnect with parameter k
HandlerStepFor(k) ==
  /\ ops' = ops + 1
  /\ calls' = calls
  /\ merge' = merge
  /\ reply'.handler \in {"callback", "disconnect"}
  /\ reply'.user = k

\* C39: a record changes only in a step of an operation performed for its
\* own key: a getGoogleAccessToken call for that account, or a callback or
\* disconnect given that key; and the record a call reads is the one of its
\* own account.  Every other key's record is the same after the step.
C39_OtherAccountsUntouched ==
  [][/\ \A k \in Keys :
          store'[k] # store[k] =>
            \/ \E c \in Calls : CallMoves(c) /\ calls[c].user = k
            \/ HandlerStepFor(k)
     /\ \A c \in Calls :
          (calls[c].pc = "get" /\ calls'[c].pc # "get")
          => calls'[c].stored = store[calls[c].user]]_vars

\* a call refreshed one account's record while the other account's record,
\* written by its own callback, is as that callback left it
C39_Witness ==
  \E c \in Calls :
     /\ RefreshedReturn(calls[c])
     /\ calls[c].user = "chris"
     /\ store["chris"] = calls[c].pending
     /\ store["wife"].exists
     /\ store["wife"].access_token # calls[c].result
     /\ store["wife"].access_token # calls[c].stored.access_token
     /\ reply.handler = "callback"

\* C40: on every path of the stream task the close of the writer is
\* requested exactly once when the task has finished, and never more than
\* once before that, so that no close is requested on a closed writer.
C40_WriterClosedExactlyOnce ==
  /\ closeCalls <= 1
  /\ pc = "finished" => closeCalls = 1
  /\ closed <=> closeCalls = 1

=============================================================================
